---- MODULE Spec2Model ----
(***************************************************************************)
(* BizPro: the transactional data layer of the point-of-sale application.  *)
(*                                                                         *)
(* The store is the SQLite database bizpro.db (tables inventory, sales,    *)
(* users) plus the SecureStore session marker.  Every handler of the view  *)
(* layer that reads or writes the store is an async function; it is        *)
(* modelled as one action per stretch of code between two awaits, so that  *)
(* other handlers interleave exactly where the JavaScript event loop lets  *)
(* them.  A storage call that can reject has a failing twin action.        *)
(*                                                                         *)
(* Texts typed by the user are sequences of one-character strings, so that *)
(* trim, parseInt, length and the username pattern are computed, not       *)
(* assumed.                                                                *)
(***************************************************************************)
EXTENDS Integers, Sequences, FiniteSets, TLC

VARIABLES
    \* ---- the store -------------------------------------------------------
    inventory,       \* table inventory: id -> [name, quantity, price]
    nextItemId,      \* AUTOINCREMENT counter of inventory
    sales,           \* table sales: sequence of rows in insertion order
    nextSaleId,      \* AUTOINCREMENT counter of sales
    users,           \* table users: sequence of rows, id = position
    userId,          \* SecureStore item 'userId' (NoMarker when absent)
    clock,           \* the wall clock read by new Date()
    \* ---- SalesScreen -----------------------------------------------------
    items,           \* useState items: the list loaded by fetchItems
    selectedItemId,  \* useState selectedItemId (NoId for null)
    quantity,        \* useState quantity: the text of the quantity field
    errorText,       \* useState errorText
    sub,             \* the handleSubmit call in flight
    retry,           \* the closure kept by the 'Failed to save sale' alert
    fetchPending,    \* a fetchItems call is in flight
    alert,           \* the text of the last Alert.alert of SalesScreen
    \* ---- InventoryScreen --------------------------------------------------
    invError,        \* useState error of the add-item form
    \* ---- SettingsScreen / HomeScreen --------------------------------------
    resetPc,         \* position of the confirmed resetDatabase handler
    homePc,          \* position of HomeScreen's fetchData
    homeView,        \* what HomeScreen's fetchData has read
    \* ---- AuthContext / initDB ---------------------------------------------
    user,            \* useState user (NoUser for null)
    reg,             \* the register calls: caller -> frame
    lg,              \* the login call
    lo,              \* position of the logout call
    seed,            \* initDB's admin seeding and its console output
    \* ---- App / settings / ReportsScreen ----------------------------------
    app,             \* AppContent: position of prepare and useState appIsReady
    settings,        \* AsyncStorage item 'settings' (NoSettings when absent)
    rep,             \* ReportsScreen: its useState values and fetchReports
    schema,          \* the tables that exist in bizpro.db
    \* ---- effects that run on mount ---------------------------------------
    lu,              \* AuthProvider's loadUser: its position and the id read
    th,              \* ThemeProvider's themeType, the later SettingsScreen's
                     \* useState settings, and the AsyncStorage calls in flight
    cs               \* the cached revision of SalesScreen: its loading state,
                     \* retryCountRef, lists, cache item and fetchData runs

vars == <<inventory, nextItemId, sales, nextSaleId, users, userId, clock, items,
          selectedItemId, quantity, errorText, sub, retry, fetchPending,
          alert, invError, resetPc, homePc, homeView, user, reg, lg, lo,
          seed, app, settings, rep, schema, lu, th, cs>>

storeVars == <<inventory, nextItemId, sales, nextSaleId>>
salesScreenVars == <<items, selectedItemId, quantity, errorText, sub, retry,
                     fetchPending>>
homeVars == <<homePc, homeView>>
authVars == <<users, userId, user, reg, lg, lo, seed>>
effectVars == <<lu, th, cs>>
extVars == <<app, settings, rep, schema, effectVars>>

-----------------------------------------------------------------------------
\* Bounds of the model.

\* inventory rows ever inserted
MaxItems == 1
\* sales rows ever inserted
MaxSales == 2
\* users rows ever inserted
MaxUsers == 2
\* process starts
MaxStarts == 2
\* fetchReports calls in flight
MaxFetches == 2
\* AsyncStorage calls of the theme and settings code in flight at one time.
MaxPending == 4
\* Consecutive failed loads of the cached sales screen that are followed.
MaxFailures == 5

-----------------------------------------------------------------------------
\* Texts.

Digits == {"0", "1", "2", "3", "4", "5", "6", "7", "8", "9"}

DigitVal(c) ==
    CASE c = "0" -> 0 [] c = "1" -> 1 [] c = "2" -> 2 [] c = "3" -> 3
      [] c = "4" -> 4 [] c = "5" -> 5 [] c = "6" -> 6 [] c = "7" -> 7
      [] c = "8" -> 8 [] c = "9" -> 9

RECURSIVE TrimStart(_)
TrimStart(s) ==
    IF s # <<>> /\ Head(s) = " " THEN TrimStart(Tail(s)) ELSE s

RECURSIVE TrimEnd(_)
TrimEnd(s) ==
    IF s # <<>> /\ s[Len(s)] = " " THEN TrimEnd(SubSeq(s, 1, Len(s) - 1)) ELSE s

\* String.prototype.trim
Trim(s) == TrimEnd(TrimStart(s))

\* The result of parseInt / parseFloat: a number or NaN.
NaN == [nan |-> TRUE, val |-> 0]
Num(n) == [nan |-> FALSE, val |-> n]
isNaN(r) == r.nan

RECURSIVE ParseDigits(_, _, _)
ParseDigits(s, acc, seen) ==
    IF s = <<>> \/ Head(s) \notin Digits
    THEN IF seen THEN Num(acc) ELSE NaN
    ELSE ParseDigits(Tail(s), acc * 10 + DigitVal(Head(s)), TRUE)

\* parseInt(text): leading white space skipped, an optional sign, then the
\* longest run of decimal digits; NaN when there is none.
parseInt(text) ==
    LET s == TrimStart(text) IN
    IF s = <<>> THEN NaN
    ELSE IF Head(s) = "-"
         THEN LET r == ParseDigits(Tail(s), 0, FALSE) IN
              IF isNaN(r) THEN NaN ELSE Num(0 - r.val)
         ELSE IF Head(s) = "+" THEN ParseDigits(Tail(s), 0, FALSE)
         ELSE ParseDigits(s, 0, FALSE)

\* parseFloat(text) on the texts of PriceTexts, none of which has a decimal
\* point or an exponent: the same digits-prefix reading as parseInt.
parseFloat(text) == parseInt(text)

\* What the user types in a quantity field.
QuantityTexts ==
    { <<" ">>, <<"x">>, <<"0">>, <<"-", "1">>, <<"1">>, <<"2">>,
      <<"1", "-">> }

\* What the user types in the price field of the add-item form.
PriceTexts == { <<>>, <<"0">>, <<"1">>, <<"2">> }

\* What the user types in the name field of the add-item form.
NameTexts == { <<>>, <<" ">>, <<"S", "o", "a", "p">> }

-----------------------------------------------------------------------------
\* Values standing for JavaScript null / undefined.

NoId == 0
NoItem == [id |-> NoId, name |-> <<>>, quantity |-> 0, price |-> 0]
NoRetry == [item |-> NoItem, text |-> <<"-">>]
NoMarker == 0
NoUser == [id |-> 0, username |-> <<>>, role |-> "none"]
IdleSub == [pc |-> "idle", item |-> NoItem, qty |-> 0, text |-> <<>>]

\* A table, or a loaded list, without rows.
EmptyTable == [i \in {} |-> NoItem]

\* Alert texts.
NoAlert == "none"
SaleSaved == "Sale saved!"
SaleFailed == "Failed to save sale"

\* errorText values set by SalesScreen.
ErrRequired == "Quantity is required"
ErrPositive == "Enter a positive number"
ErrExceedsShown == "Quantity exceeds available stock (n)"
ErrInvalid == "Select an item and enter a valid quantity"
ErrExceeds == "Quantity exceeds available stock"

-----------------------------------------------------------------------------
\* The store's statements.

\* INSERT INTO inventory (name, quantity, price) VALUES (?, ?, ?)
InsertInventory(name, qty, price) ==
    (nextItemId :> [id |-> nextItemId, name |-> name, quantity |-> qty,
                    price |-> price]) @@ inventory

\* DELETE FROM inventory WHERE id = ?
DeleteInventory(id) ==
    [i \in DOMAIN inventory \ {id} |-> inventory[i]]

\* INSERT INTO sales (itemId, quantity, amount, date) VALUES (?, ?, ?, ?)
InsertSale(itemId, qty, amount, date) ==
    Append(sales, [id |-> nextSaleId, itemId |-> itemId, quantity |-> qty,
                   amount |-> amount, date |-> date])

\* UPDATE inventory SET quantity = quantity - ? WHERE id = ?
\* (no row matches a deleted id: the statement succeeds and changes nothing)
UpdateInventoryQuantity(qty, id) ==
    IF id \in DOMAIN inventory
    THEN [inventory EXCEPT ![id].quantity = @ - qty]
    ELSE inventory

\* SELECT * FROM inventory WHERE quantity > 0
SelectItemsInStock ==
    [i \in {j \in DOMAIN inventory : inventory[j].quantity > 0} |-> inventory[i]]

RECURSIVE SumAmount(_)
SumAmount(rows) ==
    IF rows = <<>> THEN 0 ELSE Head(rows).amount + SumAmount(Tail(rows))

\* The threshold written into HomeScreen's low-stock query.
LowStockThreshold == 5

\* SELECT * FROM inventory WHERE quantity <= 5
SelectLowStock ==
    {inventory[i] : i \in {j \in DOMAIN inventory :
                              inventory[j].quantity <= LowStockThreshold}}

-----------------------------------------------------------------------------
\* InventoryScreen.

InvErrRequired == "All fields are required"
InvErrInvalid == "Quantity must be non-negative and price must be positive"

\* addItem, with the storage write succeeding.
AddItem(name, qtyText, priceText) ==
    LET qty == parseInt(qtyText)
        pr == parseFloat(priceText)
    IN
    /\ IF Trim(name) = <<>> \/ Trim(qtyText) = <<>> \/ Trim(priceText) = <<>>
       THEN /\ invError' = InvErrRequired
            /\ UNCHANGED <<inventory, nextItemId>>
       ELSE IF isNaN(qty) \/ qty.val < 0 \/ isNaN(pr) \/ pr.val <= 0
       THEN /\ invError' = InvErrInvalid
            /\ UNCHANGED <<inventory, nextItemId>>
       ELSE /\ nextItemId <= MaxItems
            /\ inventory' = InsertInventory(Trim(name), qty.val, pr.val)
            /\ nextItemId' = nextItemId + 1
            /\ invError' = ""
    /\ UNCHANGED <<sales, nextSaleId, clock, salesScreenVars, alert, resetPc,
                   homeVars, authVars,
                   extVars>>

\* A deleteItem that also removes the item's sales, as a cascading delete
\* would.
DeleteItemCascade(id) ==
    /\ id \in DOMAIN inventory
    /\ inventory' = DeleteInventory(id)
    /\ sales' = SelectSeq(sales, LAMBDA row : row.itemId # id)
    /\ UNCHANGED <<nextItemId, nextSaleId, clock, salesScreenVars,
                   alert, invError, resetPc, homeVars, authVars,
                   extVars>>

\* deleteItem, confirmed in the dialog, with the storage write succeeding.
DeleteItem(id) ==
    /\ id \in DOMAIN inventory
    /\ inventory' = DeleteInventory(id)
    /\ UNCHANGED <<nextItemId, sales, nextSaleId, clock, salesScreenVars,
                   alert, invError, resetPc, homeVars, authVars,
                   extVars>>

-----------------------------------------------------------------------------
\* SalesScreen.

\* fetchItems is called (on mount, when the effect re-runs, from Retry).
FetchItemsCall ==
    /\ ~fetchPending
    /\ fetchPending' = TRUE
    /\ UNCHANGED <<storeVars, clock, items, selectedItemId, quantity,
                   errorText, sub, retry, alert, invError, resetPc, homeVars,
                   authVars,
                   extVars>>

\* fetchItems: the query resolves and setItems(result) runs.
FetchItemsOk ==
    /\ fetchPending
    /\ fetchPending' = FALSE
    /\ items' = SelectItemsInStock
    /\ UNCHANGED <<storeVars, clock, selectedItemId, quantity, errorText,
                   sub, retry, alert, invError, resetPc, homeVars, authVars,
                   extVars>>

\* fetchItems: the query rejects; the list on screen stays as it was.
FetchItemsFail ==
    /\ fetchPending
    /\ fetchPending' = FALSE
    /\ alert' = "Failed to load items"
    /\ UNCHANGED <<storeVars, clock, items, selectedItemId, quantity,
                   errorText, sub, retry, invError, resetPc, homeVars,
                   authVars,
                   extVars>>

\* getSelectedItem for a given list and selection.
FindItem(list, id) ==
    IF id \in DOMAIN list THEN list[id] ELSE NoItem

getSelectedItem == FindItem(items, selectedItemId)

\* The Menu.Item of a listed item is pressed.
SelectItem(id) ==
    /\ retry = NoRetry
    /\ id \in DOMAIN items
    /\ selectedItemId' = id
    /\ errorText' = ""
    /\ UNCHANGED <<storeVars, clock, items, quantity, sub, retry,
                   fetchPending, alert, invError, resetPc, homeVars, authVars,
                   extVars>>

\* validateQuantity: the quantity field's onChangeText.
validateQuantity(text) ==
    LET qty == parseInt(text)
        item == getSelectedItem
    IN
    /\ retry = NoRetry
    /\ quantity' = text
    /\ errorText' =
          IF Trim(text) = <<>> THEN ErrRequired
          ELSE IF isNaN(qty) \/ qty.val <= 0 THEN ErrPositive
          ELSE IF item # NoItem /\ qty.val > item.quantity THEN ErrExceedsShown
          ELSE ""
    /\ UNCHANGED <<storeVars, clock, items, selectedItemId, sub, retry,
                   fetchPending, alert, invError, resetPc, homeVars, authVars,
                   extVars>>

clearForm ==
    /\ retry = NoRetry
    /\ selectedItemId' = NoId
    /\ quantity' = <<>>
    /\ errorText' = ""
    /\ UNCHANGED <<storeVars, clock, items, sub, retry, fetchPending, alert,
                   invError, resetPc, homeVars, authVars,
                   extVars>>

\* The two checks at the head of handleSubmit: the text handed to setError,
\* or "" when the item and the quantity pass both.
SubmitError(item, text) ==
    LET qty == parseInt(text) IN
    IF item = NoItem \/ isNaN(qty) \/ qty.val <= 0 THEN ErrInvalid
    ELSE IF qty.val > item.quantity THEN ErrExceeds
    ELSE ""

\* The synchronous head of handleSubmit, run on the item and the text its
\* closure holds: the two checks, then the INSERT is issued.
SubmitHead(item, text) ==
    LET qty == parseInt(text) IN
    IF SubmitError(item, text) # ""
    THEN /\ errorText' = SubmitError(item, text)
         /\ sub' = IdleSub
    ELSE /\ nextSaleId <= MaxSales
         /\ sub' = [pc |-> "insert", item |-> item, qty |-> qty.val,
                    text |-> text]
         /\ UNCHANGED errorText

\* The submit button is enabled.
SubmitEnabled == selectedItemId # NoId /\ quantity # <<>> /\ errorText = ""

\* handleSubmit, from the submit button.
handleSubmit ==
    /\ retry = NoRetry
    /\ sub.pc = "idle"
    /\ SubmitEnabled
    /\ SubmitHead(getSelectedItem, quantity)
    /\ UNCHANGED <<storeVars, clock, items, selectedItemId, quantity, retry,
                   fetchPending, alert, invError, resetPc, homeVars, authVars,
                   extVars>>

\* handleSubmit, from the Retry button of the 'Failed to save sale' alert:
\* the closure of the failed call runs again.
RetrySubmit ==
    /\ retry # NoRetry
    /\ sub.pc = "idle"
    /\ SubmitHead(retry.item, retry.text)
    /\ retry' = NoRetry
    /\ UNCHANGED <<storeVars, clock, items, selectedItemId, quantity,
                   fetchPending, alert, invError, resetPc, homeVars, authVars,
                   extVars>>

CancelRetry ==
    /\ retry # NoRetry
    /\ retry' = NoRetry
    /\ UNCHANGED <<storeVars, clock, items, selectedItemId, quantity,
                   errorText, sub, fetchPending, alert, invError, resetPc,
                   homeVars, authVars,
                   extVars>>

\* handleSubmit: the INSERT INTO sales resolves; the UPDATE is issued.
SubmitInsertOk ==
    /\ sub.pc = "insert"
    /\ sales' = InsertSale(sub.item.id, sub.qty, sub.qty * sub.item.price, clock)
    /\ nextSaleId' = nextSaleId + 1
    /\ sub' = [sub EXCEPT !.pc = "update"]
    /\ UNCHANGED <<inventory, nextItemId, clock, items, selectedItemId,
                   quantity, errorText, retry, fetchPending, alert, invError,
                   resetPc, homeVars, authVars,
                   extVars>>

\* handleSubmit: a write rejects; the catch block shows the Retry alert.
SubmitCatch ==
    /\ sub.pc \in {"insert", "update"}
    /\ alert' = SaleFailed
    /\ retry' = [item |-> sub.item, text |-> sub.text]
    /\ sub' = IdleSub
    /\ UNCHANGED <<storeVars, clock, items, selectedItemId, quantity,
                   errorText, fetchPending, invError, resetPc, homeVars,
                   authVars,
                   extVars>>

\* handleSubmit: the UPDATE inventory resolves; success is reported, the
\* form is cleared and fetchItems is called.
SubmitUpdateOk ==
    /\ sub.pc = "update"
    /\ inventory' = UpdateInventoryQuantity(sub.qty, sub.item.id)
    /\ alert' = SaleSaved
    /\ selectedItemId' = NoId
    /\ quantity' = <<>>
    /\ errorText' = ""
    /\ fetchPending' = TRUE
    /\ sub' = IdleSub
    /\ UNCHANGED <<nextItemId, sales, nextSaleId, clock, items, retry,
                   invError, resetPc, homeVars, authVars,
                   extVars>>

-----------------------------------------------------------------------------
\* SettingsScreen: resetDatabase, after Reset is pressed in the dialog.

ResetConfirm ==
    /\ resetPc = "idle"
    /\ resetPc' = "inventory"
    /\ UNCHANGED <<storeVars, clock, salesScreenVars, alert, invError,
                   homeVars, authVars,
                   extVars>>

\* resetDatabase is pressed: the confirmation dialog is shown.
resetDatabase ==
    /\ resetPc = "idle"
    /\ resetPc' = "dialog"
    /\ UNCHANGED <<storeVars, clock, salesScreenVars, alert, invError,
                   homeVars, authVars, extVars>>

\* Cancel is pressed in the dialog.
ResetCancel ==
    /\ resetPc = "dialog"
    /\ resetPc' = "idle"
    /\ UNCHANGED <<storeVars, clock, salesScreenVars, alert, invError,
                   homeVars, authVars, extVars>>

\* Reset is pressed in the dialog: the first DELETE is issued.
ResetPressed ==
    /\ resetPc = "dialog"
    /\ resetPc' = "inventory"
    /\ UNCHANGED <<storeVars, clock, salesScreenVars, alert, invError,
                   homeVars, authVars, extVars>>

\* DELETE FROM inventory
ResetDeleteInventory ==
    /\ resetPc = "inventory"
    /\ inventory' = EmptyTable
    /\ resetPc' = "sales"
    /\ UNCHANGED <<nextItemId, sales, nextSaleId, clock, salesScreenVars,
                   alert, invError, homeVars, authVars,
                   extVars>>

\* A reset that clears the users table as well.
ResetDeleteSalesAndUsers ==
    /\ resetPc = "sales"
    /\ sales' = <<>>
    /\ users' = <<>>
    /\ resetPc' = "idle"
    /\ UNCHANGED <<inventory, nextItemId, nextSaleId, clock, salesScreenVars,
                   alert, invError, homeVars, userId, user, reg, lg, lo, seed,
                   extVars>>

\* DELETE FROM sales
ResetDeleteSales ==
    /\ resetPc = "sales"
    /\ sales' = <<>>
    /\ resetPc' = "idle"
    /\ UNCHANGED <<inventory, nextItemId, nextSaleId, clock, salesScreenVars,
                   alert, invError, homeVars, authVars,
                   extVars>>

\* Either DELETE rejects.
ResetCatch ==
    /\ resetPc \in {"inventory", "sales"}
    /\ resetPc' = "idle"
    /\ UNCHANGED <<storeVars, clock, salesScreenVars, alert, invError, homeVars,
                   authVars,
                   extVars>>

-----------------------------------------------------------------------------
\* HomeScreen: fetchData.  Each read records, next to what it returns, the
\* position of the handleSubmit call in flight at the moment it ran.

NoView == [totalSales |-> 0, totalRevenue |-> 0, lowStock |-> {},
           during |-> "idle"]

\* The summary query (today's sales) resolves.
HomeReadSummary ==
    /\ homePc = "idle"
    /\ homePc' = "lowStock"
    /\ homeView' = [homeView EXCEPT !.totalSales = Len(sales),
                                    !.totalRevenue = SumAmount(sales),
                                    !.during = sub.pc]
    /\ UNCHANGED <<storeVars, clock, salesScreenVars, alert, invError,
                   resetPc, authVars,
                   extVars>>

\* The low-stock query resolves.
HomeReadLowStock ==
    /\ homePc = "lowStock"
    /\ homePc' = "idle"
    /\ homeView' = [homeView EXCEPT !.lowStock = SelectLowStock,
                                    !.during = sub.pc]
    /\ UNCHANGED <<storeVars, clock, salesScreenVars, alert, invError,
                   resetPc, authVars,
                   extVars>>

\* Either query rejects.
HomeCatch ==
    /\ homePc = "lowStock"
    /\ homePc' = "idle"
    /\ UNCHANGED <<storeVars, clock, salesScreenVars, alert, invError,
                   resetPc, homeView, authVars,
                   extVars>>

-----------------------------------------------------------------------------
\* AuthContext and initDB: texts, hashing, the users table.

LowerCase == {"a", "b", "c", "d", "e", "f", "g", "h", "i", "j", "k", "l", "m",
              "n", "o", "p", "q", "r", "s", "t", "u", "v", "w", "x", "y", "z"}
UpperCase == {"A", "B", "C", "D", "E", "F", "G", "H", "I", "J", "K", "L", "M",
              "N", "O", "P", "Q", "R", "S", "T", "U", "V", "W", "X", "Y", "Z"}

\* /^[a-zA-Z0-9_]+$/.test(s)
MatchesUsernamePattern(s) ==
    /\ s # <<>>
    /\ \A k \in 1..Len(s) : s[k] \in LowerCase \cup UpperCase \cup Digits \cup {"_"}

\* Minimum lengths checked by register.
MinUsernameLength == 3
MinPasswordLength == 6

validRoles == {"user", "admin"}

\* What is typed in the username field.
UsernameTexts ==
    { <<>>, <<" ">>, <<"a", "b">>, <<"a", "!">>, <<"a", "b", "!">>,
      <<"a", "b", "c">>, <<" ", "a", "b", "c", " ">>, <<"A", "b", "c">>,
      <<"a", "d", "m", "i", "n">> }

Pw123456 == <<"1", "2", "3", "4", "5", "6">>
PwAdmin123 == <<"a", "d", "m", "i", "n", "1", "2", "3">>

\* What is typed in the password field of the registration form.
RegisterPasswordTexts ==
    { <<>>, <<"1", "2", "3", "4", "5">>, <<" ", "1", "2", "3", "4", "5", " ">>,
      Pw123456, <<" ">> \o Pw123456 }

\* What is typed in the password field of the login form.
LoginPasswordTexts == { Pw123456, <<" ">> \o Pw123456, PwAdmin123 }

\* The roles a caller may pass to register.
RoleInputs == {"user", "admin", "root"}

\* The salts bcrypt may draw.
Salts == {"s1", "s2"}

\* bcrypt.hash(password, 10) with the salt drawn: a value from which the
\* password cannot be read back except by bcrypt.compare.
BcryptHash(password, salt) == [bcrypt |-> password, salt |-> salt]

\* A compare that accepts every password.
BcryptCompareAny(password, hash) == TRUE

\* bcrypt.compare(password, hash)
BcryptCompare(password, hash) == hash.bcrypt = password

NoRow == [id |-> 0, username |-> <<>>, password |-> BcryptHash(<<>>, "s1"),
          role |-> "none", createdAt |-> 0]

\* SELECT ... FROM users WHERE username = ?   (getFirstAsync: a row or null)
SelectUserByUsername(username) ==
    IF \E k \in 1..Len(users) : users[k].username = username
    THEN users[CHOOSE k \in 1..Len(users) : users[k].username = username]
    ELSE NoRow

\* SELECT id, username, role FROM users WHERE id = ?
SelectUserById(id) ==
    IF id \in 1..Len(users) THEN users[id] ELSE NoRow

\* A users table declared without the UNIQUE constraint.
NoUniqueConstraint(username) == TRUE

\* The UNIQUE constraint on users.username admits the row.
UniqueUsername(username) ==
    \A k \in 1..Len(users) : users[k].username # username

\* INSERT INTO users (username, password, role, createdAt) VALUES (?, ?, ?, ?)
InsertUser(username, hash, role, createdAt) ==
    Append(users, [id |-> Len(users) + 1, username |-> username,
                   password |-> hash, role |-> role, createdAt |-> createdAt])

-----------------------------------------------------------------------------
\* register.

\* The callers that may have a register call in flight.
Callers == {"c1", "c2"}

MsgEmpty == "Username and password cannot be empty"
MsgUsernameShort == "Username must be at least 3 characters long"
MsgPasswordShort == "Password must be at least 6 characters long"
MsgUsernamePattern == "Username can only contain letters, numbers, and underscores"
MsgRole == "Invalid role selected"
MsgExists == "Username already exists"
MsgRegistered == "User registered successfully"
MsgRegisterFailed == "Failed to register user. Please try again."

IdleReg == [pc |-> "idle", username |-> <<>>, password |-> <<>>,
            role |-> "none", taken |-> FALSE, alert |-> NoAlert,
            result |-> FALSE]

\* register with the two length checks in the other order.
RegisterValidationLengthsSwapped(trimmedUsername, trimmedPassword, role) ==
    IF trimmedUsername = <<>> \/ trimmedPassword = <<>> THEN MsgEmpty
    ELSE IF Len(trimmedPassword) < MinPasswordLength THEN MsgPasswordShort
    ELSE IF Len(trimmedUsername) < MinUsernameLength THEN MsgUsernameShort
    ELSE IF ~MatchesUsernamePattern(trimmedUsername) THEN MsgUsernamePattern
    ELSE IF role \notin validRoles THEN MsgRole
    ELSE NoAlert

\* The checks register makes before it reads the store, in the order of the
\* code: the Alert of the first one that fails, NoAlert when all pass.
RegisterValidation(trimmedUsername, trimmedPassword, role) ==
    IF trimmedUsername = <<>> \/ trimmedPassword = <<>> THEN MsgEmpty
    ELSE IF Len(trimmedUsername) < MinUsernameLength THEN MsgUsernameShort
    ELSE IF Len(trimmedPassword) < MinPasswordLength THEN MsgPasswordShort
    ELSE IF ~MatchesUsernamePattern(trimmedUsername) THEN MsgUsernamePattern
    ELSE IF role \notin validRoles THEN MsgRole
    ELSE NoAlert

\* register(username, password, role) is called: the inputs are trimmed and
\* validated; when they pass, the existence query is issued.  The frame
\* keeps whether the trimmed username was in users at the time of the call.
RegisterCall(p, username, password, role) ==
    LET trimmedUsername == Trim(username)
        trimmedPassword == Trim(password)
        msg == RegisterValidation(trimmedUsername, trimmedPassword, role)
    IN
    /\ reg[p].pc = "idle"
    /\ reg' = [reg EXCEPT ![p] =
                 [pc |-> IF msg = NoAlert THEN "lookup" ELSE "done",
                  username |-> trimmedUsername,
                  password |-> trimmedPassword,
                  role |-> role,
                  taken |-> ~UniqueUsername(trimmedUsername),
                  alert |-> msg,
                  result |-> FALSE]]
    /\ UNCHANGED <<storeVars, clock, salesScreenVars, alert, invError,
                   resetPc, homeVars, users, userId, user, lg, lo, seed,
                   extVars>>

\* register without the existence check: the INSERT is issued at once.
RegisterLookupSkipped(p) ==
    /\ reg[p].pc = "lookup"
    /\ reg' = [reg EXCEPT ![p].pc = "insert"]
    /\ UNCHANGED <<storeVars, clock, salesScreenVars, alert, invError,
                   resetPc, homeVars, users, userId, user, lg, lo, seed,
                   extVars>>

\* The existence query resolves.
RegisterLookup(p) ==
    /\ reg[p].pc = "lookup"
    /\ IF SelectUserByUsername(reg[p].username) # NoRow
       THEN reg' = [reg EXCEPT ![p].pc = "done", ![p].alert = MsgExists]
       ELSE reg' = [reg EXCEPT ![p].pc = "insert"]
    /\ UNCHANGED <<storeVars, clock, salesScreenVars, alert, invError,
                   resetPc, homeVars, users, userId, user, lg, lo, seed,
                   extVars>>

\* register that logs the new account in.
RegisterInsertAutoLogin(p, salt) ==
    /\ reg[p].pc = "insert"
    /\ UniqueUsername(reg[p].username)
    /\ Len(users) < MaxUsers
    /\ users' = InsertUser(reg[p].username, BcryptHash(reg[p].password, salt),
                           reg[p].role, clock)
    /\ reg' = [reg EXCEPT ![p].pc = "done", ![p].alert = MsgRegistered,
                          ![p].result = TRUE]
    /\ user' = [id |-> Len(users) + 1, username |-> reg[p].username,
                role |-> reg[p].role]
    /\ userId' = Len(users) + 1
    /\ UNCHANGED <<storeVars, clock, salesScreenVars, alert, invError,
                   resetPc, homeVars, lg, lo, seed,
                   extVars>>

\* The password is hashed with a fresh salt and the INSERT resolves.  A row
\* the UNIQUE constraint refuses makes the INSERT reject: the catch block.
RegisterInsert(p, salt) ==
    /\ reg[p].pc = "insert"
    /\ IF UniqueUsername(reg[p].username)
       THEN /\ Len(users) < MaxUsers
            /\ users' = InsertUser(reg[p].username,
                                   BcryptHash(reg[p].password, salt),
                                   reg[p].role, clock)
            /\ reg' = [reg EXCEPT ![p].pc = "done", ![p].alert = MsgRegistered,
                                  ![p].result = TRUE]
       ELSE /\ reg' = [reg EXCEPT ![p].pc = "done",
                                  ![p].alert = MsgRegisterFailed]
            /\ UNCHANGED users
    /\ UNCHANGED <<storeVars, clock, salesScreenVars, alert, invError,
                   resetPc, homeVars, userId, user, lg, lo, seed,
                   extVars>>

\* A storage call of register rejects: the catch block.
RegisterCatch(p) ==
    /\ reg[p].pc \in {"lookup", "insert"}
    /\ reg' = [reg EXCEPT ![p].pc = "done", ![p].alert = MsgRegisterFailed]
    /\ UNCHANGED <<storeVars, clock, salesScreenVars, alert, invError,
                   resetPc, homeVars, users, userId, user, lg, lo, seed,
                   extVars>>

\* The caller has taken the result.
RegisterReturn(p) ==
    /\ reg[p].pc = "done"
    /\ reg' = [reg EXCEPT ![p] = IdleReg]
    /\ UNCHANGED <<storeVars, clock, salesScreenVars, alert, invError,
                   resetPc, homeVars, users, userId, user, lg, lo, seed,
                   extVars>>

-----------------------------------------------------------------------------
\* initDB: the default administrator.

AdminUsername == <<"a", "d", "m", "i", "n">>

\* The tables of the schema.
Tables == {"inventory", "sales", "users"}

\* What initDB writes to the console: the text of the call and the values
\* that appear in it.
LogCreatedAdmin ==
    [text |-> "Created default admin user (username: %1, password: %2)",
     values |-> <<AdminUsername, PwAdmin123>>]
LogInitialized ==
    [text |-> "Database initialized successfully", values |-> <<>>]
LogInitFailed ==
    [text |-> "Database initialization failed:", values |-> <<>>]

\* initDB not running, nothing written to the console yet.
IdleSeed == [pc |-> "idle", failed |-> FALSE, log |-> {}]

\* initDB up to its first await: execSync has run the CREATE TABLE IF NOT
\* EXISTS statements, so the tables exist from here on, and the count query
\* is issued.
InitDBStart ==
    /\ seed.pc = "idle"
    /\ seed' = [seed EXCEPT !.pc = "count", !.failed = FALSE]
    /\ schema' = Tables

\* initDB called on its own.
InitDBCall ==
    /\ InitDBStart
    /\ UNCHANGED <<storeVars, clock, salesScreenVars, alert, invError,
                   resetPc, homeVars, users, userId, user, reg, lg, lo,
                   app, settings, rep, effectVars>>

\* An initDB that inserts the administrator whatever the count is.
InitDBCountIgnored ==
    /\ seed.pc = "count"
    /\ seed' = [seed EXCEPT !.pc = "insert"]
    /\ UNCHANGED <<storeVars, clock, salesScreenVars, alert, invError,
                   resetPc, homeVars, users, userId, user, reg, lg, lo,
                   extVars>>

\* SELECT COUNT(*) FROM users resolves.
InitDBCount ==
    /\ seed.pc = "count"
    /\ seed' = IF Len(users) = 0
               THEN [seed EXCEPT !.pc = "insert"]
               ELSE [seed EXCEPT !.pc = "idle",
                                 !.log = @ \cup {LogInitialized}]
    /\ UNCHANGED <<storeVars, clock, salesScreenVars, alert, invError,
                   resetPc, homeVars, users, userId, user, reg, lg, lo,
                   extVars>>

\* 'admin123' is hashed and the INSERT of the administrator resolves, or is
\* refused by the UNIQUE constraint and initDB throws.
InitDBSeed(salt) ==
    /\ seed.pc = "insert"
    /\ IF UniqueUsername(AdminUsername)
       THEN /\ Len(users) < MaxUsers
            /\ users' = InsertUser(AdminUsername, BcryptHash(PwAdmin123, salt),
                                   "admin", clock)
            /\ seed' = [seed EXCEPT !.pc = "idle",
                                     !.log = @ \cup {LogCreatedAdmin,
                                                     LogInitialized}]
       ELSE /\ seed' = [seed EXCEPT !.pc = "idle", !.failed = TRUE,
                                     !.log = @ \cup {LogInitFailed}]
            /\ UNCHANGED users
    /\ UNCHANGED <<storeVars, clock, salesScreenVars, alert, invError,
                   resetPc, homeVars, userId, user, reg, lg, lo,
                   extVars>>

\* A storage call of initDB rejects: initDB logs and rethrows.
InitDBCatch ==
    /\ seed.pc \in {"count", "insert"}
    /\ seed' = [seed EXCEPT !.pc = "idle", !.failed = TRUE,
                             !.log = @ \cup {LogInitFailed}]
    /\ UNCHANGED <<storeVars, clock, salesScreenVars, alert, invError,
                   resetPc, homeVars, users, userId, user, reg, lg, lo,
                   extVars>>

-----------------------------------------------------------------------------
\* login and logout.

MsgEnterBoth == "Please enter username and password"
MsgInvalid == "Invalid username or password"
MsgLoginFailed == "Failed to log in"
MsgLogoutFailed == "Failed to log out"

\* AuthProvider's effect has called loadUser: SecureStore.getItemAsync is
\* issued.
LoadUserCalled == [pc |-> "getItem", id |-> NoMarker]

\* loadUser: getItemAsync('userId') resolves; with a marker the SELECT by id
\* is issued, without one loadUser ends.
LoadUserGetItem ==
    /\ lu.pc = "getItem"
    /\ lu' = IF userId # NoMarker
             THEN [pc |-> "select", id |-> userId]
             ELSE [pc |-> "done", id |-> NoMarker]
    /\ UNCHANGED <<storeVars, clock, salesScreenVars, alert, invError,
                   resetPc, homeVars, authVars, app, settings, rep, schema,
                   th, cs>>

\* loadUser: the SELECT resolves; a row found is handed to setUser.
LoadUserSelect ==
    LET row == SelectUserById(lu.id) IN
    /\ lu.pc = "select"
    /\ user' = IF row # NoRow
               THEN [id |-> row.id, username |-> row.username,
                     role |-> row.role]
               ELSE user
    /\ lu' = [lu EXCEPT !.pc = "done"]
    /\ UNCHANGED <<storeVars, clock, salesScreenVars, alert, invError,
                   resetPc, homeVars, users, userId, reg, lg, lo, seed,
                   app, settings, rep, schema, th, cs>>

\* loadUser: getItemAsync or the SELECT rejects: the catch block warns.
LoadUserCatch ==
    /\ lu.pc \in {"getItem", "select"}
    /\ lu' = [lu EXCEPT !.pc = "done"]
    /\ UNCHANGED <<storeVars, clock, salesScreenVars, alert, invError,
                   resetPc, homeVars, authVars, app, settings, rep, schema,
                   th, cs>>

IdleLogin == [pc |-> "idle", username |-> <<>>, password |-> <<>>,
              row |-> NoRow, alert |-> NoAlert, result |-> FALSE]

\* LoginScreen.handleLogin: blank fields are refused on the screen; otherwise
\* login(username, password) is called with the texts as typed and the
\* lookup query is issued.
handleLogin(username, password) ==
    /\ lg.pc = "idle"
    /\ IF Trim(username) = <<>> \/ Trim(password) = <<>>
       THEN lg' = [IdleLogin EXCEPT !.alert = MsgEnterBoth]
       ELSE lg' = [IdleLogin EXCEPT !.pc = "lookup", !.username = username,
                                    !.password = password]
    /\ UNCHANGED <<storeVars, clock, salesScreenVars, alert, invError,
                   resetPc, homeVars, users, userId, user, reg, lo, seed,
                   extVars>>

\* login that tells an unknown username from a wrong password.
LoginLookupTellsUnknown ==
    LET row == SelectUserByUsername(lg.username) IN
    /\ lg.pc = "lookup"
    /\ IF row = NoRow
       THEN lg' = [lg EXCEPT !.pc = "done", !.alert = "User not found"]
       ELSE IF ~BcryptCompare(lg.password, row.password)
       THEN lg' = [lg EXCEPT !.pc = "done", !.row = row, !.alert = MsgInvalid]
       ELSE lg' = [lg EXCEPT !.pc = "setItem", !.row = row]
    /\ UNCHANGED <<storeVars, clock, salesScreenVars, alert, invError,
                   resetPc, homeVars, users, userId, user, reg, lo, seed,
                   extVars>>

\* login: the lookup resolves; an absent row ends the call, a row found is
\* compared with the password by bcrypt.compare.
LoginLookup ==
    LET row == SelectUserByUsername(lg.username) IN
    /\ lg.pc = "lookup"
    /\ IF row = NoRow
       THEN lg' = [lg EXCEPT !.pc = "done", !.alert = MsgInvalid]
       ELSE IF ~BcryptCompare(lg.password, row.password)
       THEN lg' = [lg EXCEPT !.pc = "done", !.row = row, !.alert = MsgInvalid]
       ELSE lg' = [lg EXCEPT !.pc = "setItem", !.row = row]
    /\ UNCHANGED <<storeVars, clock, salesScreenVars, alert, invError,
                   resetPc, homeVars, users, userId, user, reg, lo, seed,
                   extVars>>

\* login: SecureStore.setItemAsync('userId', user.id.toString()) resolves.
LoginSetItem ==
    /\ lg.pc = "setItem"
    /\ userId' = lg.row.id
    /\ lg' = [lg EXCEPT !.pc = "setUser"]
    /\ UNCHANGED <<storeVars, clock, salesScreenVars, alert, invError,
                   resetPc, homeVars, users, user, reg, lo, seed,
                   extVars>>

\* login: the continuation runs setUser and returns true.
LoginSetUser ==
    /\ lg.pc = "setUser"
    /\ user' = [id |-> lg.row.id, username |-> lg.row.username,
                role |-> lg.row.role]
    /\ lg' = [lg EXCEPT !.pc = "done", !.result = TRUE]
    /\ UNCHANGED <<storeVars, clock, salesScreenVars, alert, invError,
                   resetPc, homeVars, users, userId, reg, lo, seed,
                   extVars>>

\* login: the lookup or the SecureStore write rejects: the catch block.
LoginCatch ==
    /\ lg.pc \in {"lookup", "setItem"}
    /\ lg' = [lg EXCEPT !.pc = "done", !.alert = MsgLoginFailed]
    /\ UNCHANGED <<storeVars, clock, salesScreenVars, alert, invError,
                   resetPc, homeVars, users, userId, user, reg, lo, seed,
                   extVars>>

\* handleLogin has taken the result.
LoginReturn ==
    /\ lg.pc = "done"
    /\ lg' = IdleLogin
    /\ UNCHANGED <<storeVars, clock, salesScreenVars, alert, invError,
                   resetPc, homeVars, users, userId, user, reg, lo, seed,
                   extVars>>

\* logout is called: SecureStore.deleteItemAsync is issued.
LogoutCall ==
    /\ lo = "idle"
    /\ lo' = "delete"
    /\ UNCHANGED <<storeVars, clock, salesScreenVars, alert, invError,
                   resetPc, homeVars, users, userId, user, reg, lg, seed,
                   extVars>>

\* logout: the delete resolves.
LogoutDelete ==
    /\ lo = "delete"
    /\ userId' = NoMarker
    /\ lo' = "setUser"
    /\ UNCHANGED <<storeVars, clock, salesScreenVars, alert, invError,
                   resetPc, homeVars, users, user, reg, lg, seed,
                   extVars>>

\* logout: the continuation runs setUser(null).
LogoutSetUser ==
    /\ lo = "setUser"
    /\ user' = NoUser
    /\ lo' = "idle"
    /\ UNCHANGED <<storeVars, clock, salesScreenVars, alert, invError,
                   resetPc, homeVars, users, userId, reg, lg, seed,
                   extVars>>

\* logout: the delete rejects: the catch block.
LogoutCatch ==
    /\ lo = "delete"
    /\ lo' = "idle"
    /\ UNCHANGED <<storeVars, clock, salesScreenVars, alert, invError, resetPc,
                   homeVars, users, userId, user, reg, lg, seed,
                   extVars>>

-----------------------------------------------------------------------------
\* App.tsx: AppContent's prepare, run once when the process starts.

\* AsyncStorage holds no item 'settings'.
NoSettings == [k \in {} |-> ""]

\* No fetchReports call is kept by an alert.
NoCall == [period |-> "none", start |-> <<>>, end |-> <<>>]

\* The summary ReportsScreen starts with, and shows for an empty range.
ZeroSummary ==
    [totalSales |-> 0, totalRevenue |-> 0, averageSale |-> [num |-> 0, den |-> 1]]

\* ReportsScreen before it is mounted: its useState initial values, no
\* fetchReports call in flight.
IdleReports ==
    [mounted |-> FALSE, period |-> "daily", modalVisible |-> FALSE,
     startDate |-> <<>>, endDate |-> <<>>, reports |-> {},
     summary |-> ZeroSummary, alert |-> NoAlert, calls |-> {},
     retry |-> NoCall]

\* The process has started and prepare has not run yet.
AppStart == [pc |-> "start", ready |-> FALSE, initFailed |-> FALSE,
             starts |-> 1]

\* prepare has ended after initDB resolved.
AppReady == [pc |-> "done", ready |-> TRUE, initFailed |-> FALSE,
             starts |-> 1]

\* prepare calls initDB, whose execSync creates the tables; initDB then
\* awaits its count query.
Prepare ==
    /\ app.pc = "start"
    /\ InitDBStart
    /\ app' = [app EXCEPT !.pc = "initDB"]
    /\ UNCHANGED <<storeVars, clock, salesScreenVars, alert, invError,
                   resetPc, homeVars, users, userId, user, reg, lg, lo,
                   settings, rep, effectVars>>

\* The tables the statements of execSync have created when one of them
\* fails: the statements run in order, those before the failing one stay.
PartialSchemas ==
    { schema, schema \cup {"inventory"}, schema \cup {"inventory", "sales"} }

\* prepare calls initDB and execSync throws: initDB logs and rethrows, so the
\* promise prepare awaits is rejected.
PrepareSchemaFail ==
    /\ app.pc = "start"
    /\ seed.pc = "idle"
    /\ seed' = [seed EXCEPT !.failed = TRUE, !.log = @ \cup {LogInitFailed}]
    /\ schema' \in PartialSchemas
    /\ app' = [app EXCEPT !.pc = "initDB"]
    /\ UNCHANGED <<storeVars, clock, salesScreenVars, alert, invError,
                   resetPc, homeVars, users, userId, user, reg, lg, lo,
                   settings, rep, effectVars>>

\* initDB has resolved: prepare goes on to its one-second delay.
PrepareInitDBDone ==
    /\ app.pc = "initDB"
    /\ seed.pc = "idle"
    /\ ~seed.failed
    /\ app' = [app EXCEPT !.pc = "delay"]
    /\ UNCHANGED <<storeVars, clock, salesScreenVars, alert, invError,
                   resetPc, homeVars, authVars, settings, rep, schema,
                   effectVars>>

\* The delay is over: the finally block runs setAppIsReady(true).
PrepareDelayDone ==
    /\ app.pc = "delay"
    /\ app' = [app EXCEPT !.pc = "done", !.ready = TRUE]
    /\ UNCHANGED <<storeVars, clock, salesScreenVars, alert, invError,
                   resetPc, homeVars, authVars, settings, rep, schema,
                   effectVars>>

\* initDB has rejected: prepare's catch block logs a warning and the finally
\* block runs setAppIsReady(true).
PrepareCatch ==
    /\ app.pc = "initDB"
    /\ seed.pc = "idle"
    /\ seed.failed
    /\ app' = [app EXCEPT !.pc = "done", !.ready = TRUE, !.initFailed = TRUE]
    /\ UNCHANGED <<storeVars, clock, salesScreenVars, alert, invError,
                   resetPc, homeVars, authVars, settings, rep, schema,
                   effectVars>>

-----------------------------------------------------------------------------
\* Specifications.

\* ThemeProvider and the later SettingsScreen before the screen is mounted:
\* useState themeType 'dark', useState settings null, no AsyncStorage call
\* in flight.
ThemeStart ==
    [themeType |-> "dark", mounted |-> FALSE, screen |-> NoSettings,
     ops |-> <<>>]

\* No item under CACHE_KEY.
NoCache == [present |-> FALSE, items |-> EmptyTable, recentSales |-> <<>>,
            timestamp |-> 0]

\* The cached revision of SalesScreen before it is mounted: useState
\* isRefreshing and isLoading false, retryCountRef 0, empty lists; no
\* fetchData run and no debounce timer.
CachedStart ==
    [mounted |-> FALSE, isLoading |-> FALSE, isRefreshing |-> FALSE,
     retryCount |-> 0, alert |-> NoAlert, items |-> EmptyTable,
     recentSales |-> <<>>, cache |-> NoCache,
     runs |-> [queries |-> 0, cache |-> 0], timers |-> {}]

\* What a process holds in memory when it has just started: the useState
\* initial values of the screens and no call in flight.
InitScreens ==
    /\ items = EmptyTable
    /\ selectedItemId = NoId
    /\ quantity = <<>>
    /\ errorText = ""
    /\ sub = IdleSub
    /\ retry = NoRetry
    /\ fetchPending = FALSE
    /\ alert = NoAlert
    /\ invError = ""
    /\ resetPc = "idle"
    /\ homePc = "idle"
    /\ homeView = NoView
    /\ user = NoUser
    /\ reg = [p \in Callers |-> IdleReg]
    /\ lg = IdleLogin
    /\ lo = "idle"
    /\ seed = IdleSeed
    /\ rep = IdleReports
    /\ lu = LoadUserCalled
    /\ th = ThemeStart

InitMemory ==
    /\ InitScreens
    /\ cs = CachedStart

\* The application is ready on a store whose tables are empty.
Init ==
    /\ inventory = EmptyTable
    /\ nextItemId = 1
    /\ sales = <<>>
    /\ nextSaleId = 1
    /\ users = <<>>
    /\ userId = NoMarker
    /\ settings = NoSettings
    /\ schema = Tables
    /\ app = AppReady
    /\ clock = 0
    /\ InitMemory

\* The add-item form filled in with texts that pass its validation.
StockTexts == { <<"0">>, <<"1">>, <<"2">> }
ValidPriceTexts == { <<"2">>, <<"3">> }
Soap == <<"S", "o", "a", "p">>

\* The inventory and sales screens and the settings reset.
SalesNext ==
    \/ \E q \in StockTexts, p \in ValidPriceTexts : AddItem(Soap, q, p)
    \/ \E id \in 1..MaxItems : DeleteItem(id)
    \/ FetchItemsCall
    \/ FetchItemsOk
    \/ FetchItemsFail
    \/ \E id \in 1..MaxItems : SelectItem(id)
    \/ \E t \in QuantityTexts : validateQuantity(t)
    \/ clearForm
    \/ handleSubmit
    \/ RetrySubmit
    \/ CancelRetry
    \/ SubmitInsertOk
    \/ SubmitCatch
    \/ SubmitUpdateOk
    \/ ResetConfirm
    \/ ResetDeleteInventory
    \/ ResetDeleteSales
    \/ ResetCatch

SpecSales == Init /\ [][SalesNext]_vars

\* The home dashboard reading while sales are recorded.
HomeNext ==
    \/ \E q \in StockTexts, p \in ValidPriceTexts : AddItem(Soap, q, p)
    \/ FetchItemsCall
    \/ FetchItemsOk
    \/ \E id \in 1..MaxItems : SelectItem(id)
    \/ \E t \in StockTexts : validateQuantity(t)
    \/ handleSubmit
    \/ SubmitInsertOk
    \/ SubmitUpdateOk
    \/ HomeReadSummary
    \/ HomeReadLowStock
    \/ HomeCatch

SpecHome == Init /\ [][HomeNext]_vars

\* One caller of register, with every text of the registration form, on a
\* store whose calls all resolve.
ValidationNext ==
    \/ \E u \in UsernameTexts, pw \in RegisterPasswordTexts, r \in RoleInputs :
          RegisterCall("c1", u, pw, r)
    \/ RegisterLookup("c1")
    \/ \E s \in Salts : RegisterInsert("c1", s)
    \/ RegisterReturn("c1")

SpecValidation == Init /\ [][ValidationNext]_vars

\* Texts of the forms that pass the validation of register.
ValidUsernameTexts == { <<"a", "b", "c">>, <<" ", "a", "b", "c", " ">>,
                        AdminUsername }
ValidPasswordTexts == { Pw123456 }

\* Concurrent register calls and initDB's seeding.
RegisterNext ==
    \/ \E p \in Callers, u \in ValidUsernameTexts, pw \in ValidPasswordTexts,
          r \in validRoles : RegisterCall(p, u, pw, r)
    \/ \E p \in Callers : RegisterLookup(p)
    \/ \E p \in Callers, s \in Salts : RegisterInsert(p, s)
    \/ \E p \in Callers : RegisterCatch(p)
    \/ \E p \in Callers : RegisterReturn(p)
    \/ InitDBCall
    \/ InitDBCount
    \/ \E s \in Salts : InitDBSeed(s)
    \/ InitDBCatch

SpecRegister == Init /\ [][RegisterNext]_vars

\* What is typed in the username field of the login form.
LoginUsernameTexts == { <<>>, <<"a", "b", "c">>, <<" ", "a", "b", "c", " ">>,
                        <<"A", "b", "c">>, AdminUsername }

\* Registration, login and logout of one device.
AuthNext ==
    \/ \E u \in ValidUsernameTexts, pw \in ValidPasswordTexts, r \in validRoles :
          RegisterCall("c1", u, pw, r)
    \/ RegisterLookup("c1")
    \/ \E s \in Salts : RegisterInsert("c1", s)
    \/ RegisterCatch("c1")
    \/ RegisterReturn("c1")
    \/ \E u \in LoginUsernameTexts, pw \in LoginPasswordTexts : handleLogin(u, pw)
    \/ LoginLookup
    \/ LoginSetItem
    \/ LoginSetUser
    \/ LoginCatch
    \/ LoginReturn
    \/ LogoutCall
    \/ LogoutDelete
    \/ LogoutSetUser
    \/ LogoutCatch

SpecAuth == Init /\ [][AuthNext]_vars

-----------------------------------------------------------------------------
\* Properties of the sale transaction (SpecSales, SpecHome).

\* C1: every inventory row's stored quantity is >= 0 in every reachable
\* state of the add-item, record-sale, delete-item and reset operations.
C1_StockNeverNegative ==
    \A i \in DOMAIN inventory : inventory[i].quantity >= 0

\* The Sale row written by the handleSubmit call in flight is in the table.
SaleRowPersists(table) ==
    \E k \in 1..Len(table) : table[k].id = nextSaleId - 1

\* The step decrements the stored quantity of the call's item by its qty.
StockDecremented ==
    /\ sub.item.id \in DOMAIN inventory
    /\ sub.item.id \in DOMAIN inventory'
    /\ inventory'[sub.item.id].quantity = inventory[sub.item.id].quantity - sub.qty

\* C2: the Sale insert and the stock decrement are all-or-nothing: when a
\* handleSubmit call that has inserted its Sale row ends (in success or in
\* a storage failure), the row persists if and only if the item's stored
\* quantity was decremented by q for it.
C2_SaleAndDecrementAtomic ==
    [][ (sub.pc = "update" /\ sub'.pc = "idle")
          => (SaleRowPersists(sales') <=> StockDecremented) ]_vars

\* The row a successful sale of qty units of the stored item id must leave.
ExpectedSaleRow(id, qty) ==
    [id |-> nextSaleId - 1, itemId |-> id, quantity |-> qty,
     amount |-> qty * inventory[id].price, date |-> clock]

\* C3: for every successful recordSale(itemId, q) the item's stored quantity
\* afterwards is its stored quantity before minus q, exactly one new Sale
\* row exists, with itemId, quantity q and amount q * unit price, and no
\* other inventory row and no existing Sale row changes.
C3_SuccessfulSaleEffect ==
    [][ /\ (sub.pc = "insert" /\ sub'.pc = "update")
            => /\ Len(sales') = Len(sales) + 1
               /\ SubSeq(sales', 1, Len(sales)) = sales
               /\ inventory' = inventory
        /\ (sub.pc = "update" /\ sub'.pc = "idle" /\ alert' = SaleSaved
              /\ retry' = NoRetry)
            => /\ sub.item.id \in DOMAIN inventory
               /\ inventory' = [inventory EXCEPT
                                  ![sub.item.id].quantity = @ - sub.qty]
               /\ sales' = sales
               /\ Len(sales) >= 1
               /\ sales[Len(sales)] = ExpectedSaleRow(sub.item.id, sub.qty)
      ]_vars

\* The attempt asks for more than the store holds of the item.
ExceedsStoredQuantity(item, text) ==
    /\ item # NoItem
    /\ ~isNaN(parseInt(text))
    /\ parseInt(text).val > 0
    /\ item.id \in DOMAIN inventory
    /\ parseInt(text).val > inventory[item.id].quantity

\* C4: every recordSale attempt whose quantity is greater than the item's
\* current stored quantity fails with the insufficient-stock outcome, and
\* neither the sales table nor the item's quantity changes.
C4_InsufficientStockRejected ==
    [][ ( \/ (handleSubmit /\ ExceedsStoredQuantity(getSelectedItem, quantity))
          \/ (RetrySubmit /\ ExceedsStoredQuantity(retry.item, retry.text)) )
          => (errorText' = ErrExceeds /\ sub'.pc = "idle"
                /\ sales' = sales /\ inventory' = inventory) ]_vars

\* C5: a read that runs concurrently with recordSale never observes the
\* state between the Sale insert and the stock decrement.
C5_ReadsSeeNoIntermediateState ==
    homeView.during # "update"

-----------------------------------------------------------------------------
\* Properties of register and login (SpecRegister, SpecValidation, SpecAuth).

\* C6: after any interleaving of register calls and initDB's seeding, two
\* concurrent registrations of one username included, no two users rows
\* have the same username and at most one of the competing registrations
\* returns true.
C6_UsernamesUnique ==
    /\ \A j, k \in 1..Len(users) :
          j # k => users[j].username # users[k].username
    /\ \A p, q \in Callers :
          (p # q /\ reg[p].pc = "done" /\ reg[q].pc = "done"
             /\ reg[p].username = reg[q].username)
          => ~(reg[p].result /\ reg[q].result)

\* Two calls for one username, both past the existence check with the name
\* free, have ended: one returned true, the other was refused by the store.
C6_Witness ==
    /\ reg["c1"].pc = "done" /\ reg["c2"].pc = "done"
    /\ reg["c1"].username = reg["c2"].username
    /\ ~reg["c1"].taken /\ ~reg["c2"].taken
    /\ reg["c1"].result
    /\ reg["c2"].alert = MsgRegisterFailed
    /\ ~UniqueUsername(reg["c1"].username)

\* The five checks register makes before reading the store all pass.
InputsValid(f) ==
    /\ f.username # <<>> /\ f.password # <<>>
    /\ Len(f.username) >= 3
    /\ Len(f.password) >= 6
    /\ MatchesUsernamePattern(f.username)
    /\ f.role \in {"user", "admin"}

\* C7: a register call whose trimmed username is already in users (exact,
\* case-sensitive match) and whose other inputs are valid returns false
\* with 'Username already exists', and the users table is unchanged.
C7_DuplicateUsernameRejected ==
    /\ [] (\A p \in Callers :
             (reg[p].pc = "done" /\ reg[p].taken /\ InputsValid(reg[p]))
             => (reg[p].result = FALSE /\ reg[p].alert = MsgExists))
    /\ [][ \A p \in Callers :
             (reg'[p].pc # "idle" /\ reg'[p].taken /\ InputsValid(reg'[p])
                /\ reg'[p] # reg[p])
             => users' = users ]_vars

\* A call for a username already in the table has been refused, while the
\* same letters in another case are not in the table.
C7_Witness ==
    /\ reg["c1"].pc = "done"
    /\ reg["c1"].taken
    /\ reg["c1"].username = <<"a", "b", "c">>
    /\ reg["c1"].alert = MsgExists
    /\ UniqueUsername(<<"A", "b", "c">>)

\* The rejection reasons of register.
RejectionReasons ==
    {MsgEmpty, MsgUsernameShort, MsgPasswordShort, MsgUsernamePattern,
     MsgRole, MsgExists}

\* The reason the fixed order of checks gives for the inputs of frame f,
\* NoAlert when none of the six checks fails.
FirstFailingCheck(f) ==
    LET nonEmpty == f.username # <<>> /\ f.password # <<>>
        userLong == Len(f.username) >= 3
        passLong == Len(f.password) >= 6
        pattern == MatchesUsernamePattern(f.username)
        roleOk == f.role \in {"user", "admin"}
    IN
    CASE ~nonEmpty -> MsgEmpty
      [] nonEmpty /\ ~userLong -> MsgUsernameShort
      [] nonEmpty /\ userLong /\ ~passLong -> MsgPasswordShort
      [] nonEmpty /\ userLong /\ passLong /\ ~pattern -> MsgUsernamePattern
      [] nonEmpty /\ userLong /\ passLong /\ pattern /\ ~roleOk -> MsgRole
      [] nonEmpty /\ userLong /\ passLong /\ pattern /\ roleOk /\ f.taken
           -> MsgExists
      [] OTHER -> NoAlert

\* C8: register validates the trimmed username and password in the fixed
\* order non-empty, username length >= 3, password length >= 6, username
\* pattern, role, username not taken; the reason reported is that of the
\* first check that fails, the six reasons are pairwise distinct, and a
\* rejected call writes nothing.
C8_ValidationOrder ==
    /\ [] (/\ Cardinality(RejectionReasons) = 6
           /\ \A p \in Callers :
                /\ reg[p].pc = "done"
                     => /\ reg[p].username = Trim(reg[p].username)
                        /\ reg[p].password = Trim(reg[p].password)
                        /\ IF FirstFailingCheck(reg[p]) = NoAlert
                           THEN reg[p].alert \notin RejectionReasons
                           ELSE reg[p].alert = FirstFailingCheck(reg[p])
                /\ reg[p].pc \in {"lookup", "insert"}
                     => FirstFailingCheck(reg[p]) \in {NoAlert, MsgExists})
    /\ [][ \A p \in Callers :
             (reg'[p] # reg[p] /\ reg'[p].alert \in RejectionReasons)
             => users' = users ]_vars

\* A call with a username of two characters and a password of five has
\* been rejected for the username's length.
C8_Witness ==
    /\ reg["c1"].pc = "done"
    /\ reg["c1"].username = <<"a", "b">>
    /\ Len(reg["c1"].password) = 5
    /\ reg["c1"].alert = MsgUsernameShort

\* C9: a successful register inserts exactly one users row (trimmed
\* username, hash of the password, the given role, creation timestamp), and
\* no step of a register call, successful or not, changes the current user
\* or the stored session marker.
C9_RegisterNoLogin ==
    [][ \A p \in Callers :
          /\ reg'[p] # reg[p] => (user' = user /\ userId' = userId)
          /\ (reg'[p] # reg[p] /\ reg'[p].pc = "done" /\ reg'[p].result)
               => /\ Len(users') = Len(users) + 1
                  /\ SubSeq(users', 1, Len(users)) = users
                  /\ LET row == users'[Len(users')] IN
                       /\ row.username = reg[p].username
                       /\ row.username = Trim(row.username)
                       /\ \E salt \in Salts :
                            row.password = BcryptHash(reg[p].password, salt)
                       /\ row.role = reg[p].role
                       /\ row.createdAt = clock
          /\ (reg'[p] # reg[p] /\ ~(reg'[p].pc = "done" /\ reg'[p].result))
               => users' = users
      ]_vars

\* A register call has succeeded while a user is logged in.
C9_Witness ==
    /\ reg["c1"].pc = "done"
    /\ reg["c1"].result
    /\ user # NoUser
    /\ userId # NoMarker
    /\ user.username # reg["c1"].username

\* The login call in flight named a username that is not in users.
LoginUnknownUsername == UniqueUsername(lg.username)

\* The login call in flight found its row and the password did not verify.
LoginWrongPassword ==
    lg.row # NoRow /\ ~BcryptCompare(lg.password, lg.row.password)

\* C10: login with an existing username and a wrong password ends in the
\* same caller-visible outcome as login with a username that does not
\* exist: false, 'Invalid username or password', session state untouched.
C10_LoginFailuresIndistinguishable ==
    /\ [] ((lg.pc = "done" /\ lg.alert # MsgLoginFailed
              /\ (LoginUnknownUsername \/ LoginWrongPassword))
             => (lg.result = FALSE /\ lg.alert = MsgInvalid))
    /\ [][ (lg' # lg /\ lg'.pc = "done" /\ ~lg'.result)
             => (user' = user /\ userId' = userId) ]_vars

\* A login with the username of an existing account and a password that
\* does not verify has ended, while another user's session is stored.
C10_Witness ==
    /\ lg.pc = "done"
    /\ LoginWrongPassword
    /\ lg.alert = MsgInvalid
    /\ user # NoUser

-----------------------------------------------------------------------------
\* Properties of login (SpecAuth).

\* The users rows whose username is exactly the text given to the login
\* call in flight and whose stored hash is a hash of its password.
MatchingRows ==
    { k \in 1..Len(users) : /\ users[k].username = lg.username
                            /\ users[k].password.bcrypt = lg.password }

\* C11: login succeeds if and only if a users row with exactly the supplied
\* username exists and the supplied password verifies against its hash
\* (a storage failure apart). On success the session marker stores the
\* row's id and the current user becomes the row's (id, username, role);
\* a login that fails, by invalid credentials or by storage failure,
\* leaves the current user and the session marker as they were.
C11_LoginIffCredentialsMatch ==
    /\ [] ((lg.pc \in {"setItem", "setUser"} \/ (lg.pc = "done" /\ lg.result))
             => \E k \in MatchingRows : lg.row = users[k])
    /\ [] ((lg.pc = "done" /\ ~lg.result)
             => lg.alert \in {MsgInvalid, MsgLoginFailed})
    /\ [][ /\ (lg.pc = "lookup" /\ lg'.pc = "done" /\ lg'.alert = MsgInvalid)
               => MatchingRows = {}
           /\ (lg.pc = "setItem" /\ lg'.pc = "setUser")
               => (userId' = lg.row.id /\ user' = user)
           /\ (lg.pc = "setUser" /\ lg' # lg)
               => /\ lg'.pc = "done" /\ lg'.result
                  /\ user' = [id |-> lg.row.id, username |-> lg.row.username,
                              role |-> lg.row.role]
                  /\ userId' = userId
           /\ (lg' # lg /\ lg.pc \notin {"setItem", "setUser"})
               => (user' = user /\ userId' = userId)
           /\ (lg' # lg /\ lg'.pc = "done" /\ ~lg'.result)
               => (user' = user /\ userId' = userId)
         ]_vars

\* A login has succeeded for the second account of the table: the session
\* marker and the current user are that account's.
C11_Witness ==
    /\ lg.pc = "done"
    /\ lg.result
    /\ Len(users) = 2
    /\ lg.row = users[2]
    /\ userId = 2
    /\ user = [id |-> 2, username |-> lg.username, role |-> users[2].role]

-----------------------------------------------------------------------------
\* Process start on a store left by earlier runs.

Abc == <<"a", "b", "c">>

\* The users rows a starting store may hold at position k.
StartingRows(k) ==
    { [id |-> k, username |-> u, password |-> BcryptHash(Pw123456, "s1"),
       role |-> r, createdAt |-> 0] : u \in {Abc, AdminUsername},
                                      r \in validRoles }

\* The users tables a starting store may hold.
StartingUsers ==
    {<<>>} \cup { <<a>> : a \in StartingRows(1) }
           \cup { t \in { <<a, b>> : a \in StartingRows(1),
                                       b \in StartingRows(2) } :
                     t[1].username # t[2].username }

\* The stores a process may find: none (first run), one created by the
\* revision of initDB that has no users table, or one with a users table.
StartingStores ==
    { [schema |-> {}, users |-> <<>>],
      [schema |-> {"inventory", "sales"}, users |-> <<>>] }
    \cup { [schema |-> Tables, users |-> u] : u \in StartingUsers }

InitStartup ==
    /\ inventory = EmptyTable
    /\ nextItemId = 1
    /\ sales = <<>>
    /\ nextSaleId = 1
    /\ \E st \in StartingStores : schema = st.schema /\ users = st.users
    /\ userId = NoMarker
    /\ settings = NoSettings
    /\ app = AppStart
    /\ clock = 0
    /\ InitMemory

\* The process ends and is started again: the store stays, the memory of
\* the process is new.
AppRestart ==
    /\ app.pc = "done"
    /\ app.starts < MaxStarts
    /\ app' = [AppStart EXCEPT !.starts = app.starts + 1]
    /\ items' = EmptyTable
    /\ selectedItemId' = NoId
    /\ quantity' = <<>>
    /\ errorText' = ""
    /\ sub' = IdleSub
    /\ retry' = NoRetry
    /\ fetchPending' = FALSE
    /\ alert' = NoAlert
    /\ invError' = ""
    /\ resetPc' = "idle"
    /\ homePc' = "idle"
    /\ homeView' = NoView
    /\ user' = NoUser
    /\ reg' = [p \in Callers |-> IdleReg]
    /\ lg' = IdleLogin
    /\ lo' = "idle"
    /\ seed' = IdleSeed
    /\ rep' = IdleReports
    /\ lu' = LoadUserCalled
    /\ th' = ThemeStart
    /\ cs' = [CachedStart EXCEPT !.cache = cs.cache]
    /\ UNCHANGED <<storeVars, clock, users, userId, settings, schema>>

StartupNext ==
    \/ Prepare
    \/ PrepareSchemaFail
    \/ InitDBCount
    \/ \E s \in Salts : InitDBSeed(s)
    \/ InitDBCatch
    \/ PrepareInitDBDone
    \/ PrepareDelayDone
    \/ PrepareCatch
    \/ AppRestart

SpecStartup == InitStartup /\ [][StartupNext]_vars

\* C12: initDB is idempotent. A call that resolves leaves all three tables
\* and a users table that is not empty, and a call on such a store changes
\* neither the tables nor the users rows; the administrator is inserted
\* only into an empty users table, so the insert is never refused and no
\* second administrator is added.
C12_InitDBIdempotent ==
    /\ [] ((app.pc = "delay" \/ (app.pc = "done" /\ ~app.initFailed))
             => (schema = Tables /\ Len(users) >= 1))
    /\ [] (seed.pc = "insert"
             => (Len(users) = 0 /\ UniqueUsername(AdminUsername)))
    /\ [][ /\ (schema = Tables /\ Len(users) >= 1)
               => (schema' = schema /\ users' = users)
           /\ users' # users
               => /\ users = <<>>
                  /\ Len(users') = 1
                  /\ users'[1].username = AdminUsername
                  /\ users'[1].role = "admin"
         ]_vars

\* initDB has run in two process starts, the first of which seeded the
\* administrator; the second left the one row in place.
C12_Witness ==
    /\ app.starts = 2
    /\ app.pc = "done"
    /\ ~app.initFailed
    /\ schema = Tables
    /\ Len(users) = 1
    /\ users[1].username = AdminUsername
    /\ users[1].password.bcrypt = PwAdmin123

\* C13: a failure of initDB is fatal to startup: after initDB has failed the
\* application does not become ready.
C13_InitFailureFatal ==
    seed.failed => ~app.ready

-----------------------------------------------------------------------------
\* The settings reset on a store left by earlier use.

\* The blob saveSettings writes for the settings the screen starts with.
DefaultSettings ==
    [theme |-> "dark", lowStock |-> TRUE, dailySales |-> FALSE,
     currency |-> "KES", userName |-> "User"]

StartingSettings == { NoSettings, DefaultSettings }

\* The inventory tables a starting store may hold.
StartingInventories ==
    { EmptyTable }
    \cup { (1 :> [id |-> 1, name |-> Soap, quantity |-> q, price |-> 2]) :
             q \in {0, 1, 2} }

\* The sales tables a starting store may hold.
StartingSales ==
    { <<>>,
      << [id |-> 1, itemId |-> 1, quantity |-> 1, amount |-> 2, date |-> 0] >>,
      << [id |-> 1, itemId |-> 1, quantity |-> 1, amount |-> 2, date |-> 0],
         [id |-> 2, itemId |-> 1, quantity |-> 2, amount |-> 4, date |-> 0] >> }

InitReset ==
    /\ inventory \in StartingInventories
    /\ nextItemId = Cardinality(DOMAIN inventory) + 1
    /\ sales \in StartingSales
    /\ nextSaleId = Len(sales) + 1
    /\ users \in StartingUsers
    /\ userId = NoMarker
    /\ settings \in StartingSettings
    /\ schema = Tables
    /\ app = AppReady
    /\ clock = 0
    /\ InitMemory

ResetNext ==
    \/ resetDatabase
    \/ ResetCancel
    \/ ResetPressed
    \/ ResetDeleteInventory
    \/ ResetDeleteSales
    \/ ResetCatch

SpecReset == InitReset /\ [][ResetNext]_vars

\* C14: the reset, once Reset is pressed in the dialog, deletes every
\* inventory row and every sales row and nothing else: when it completes
\* both tables are empty, and no step of it changes the users table, the
\* session marker, the settings blob or the schema; while the dialog is
\* open, and when Cancel is pressed, no row is deleted.
C14_ResetDeletesInventoryAndSales ==
    [][ /\ users' = users /\ userId' = userId
        /\ settings' = settings /\ schema' = schema
        /\ resetPc \in {"idle", "dialog"}
             => (inventory' = inventory /\ sales' = sales)
        /\ (resetPc = "inventory" /\ resetPc' = "sales")
             => (inventory' = EmptyTable /\ sales' = sales)
        /\ ResetDeleteSales
             => (inventory' = EmptyTable /\ sales' = <<>>)
      ]_vars

\* A store with one item, two sales, two accounts and saved settings has
\* been reset: the item and the sales are gone, the rest is in place.
C14_Witness ==
    /\ resetPc = "idle"
    /\ nextItemId = 2 /\ inventory = EmptyTable
    /\ nextSaleId = 3 /\ sales = <<>>
    /\ Len(users) = 2
    /\ settings = DefaultSettings

-----------------------------------------------------------------------------
\* ReportsScreen: dates as the texts the code compares.

\* The characters of date texts in ascending order of their codes.
CharOrder ==
    <<"-", "/", "0", "1", "2", "3", "4", "5", "6", "7", "8", "9", ":", "T",
      "Z">>

CharRank(c) == CHOOSE k \in 1..Len(CharOrder) : CharOrder[k] = c

\* a <= b for TEXT values in SQLite's BINARY collation: the first differing
\* character decides, and a proper prefix is the smaller text.
RECURSIVE TextLeq(_, _)
TextLeq(a, b) ==
    IF a = <<>> THEN TRUE
    ELSE IF b = <<>> THEN FALSE
    ELSE IF Head(a) = Head(b) THEN TextLeq(Tail(a), Tail(b))
    ELSE CharRank(Head(a)) < CharRank(Head(b))

Year2026 == <<"2", "0", "2", "6", "-">>

\* The days of the model, as date('now') and toISOString write them:
\* 25 October to 2 November 2026.
Calendar ==
    << Year2026 \o <<"1", "0", "-", "2", "5">>,
       Year2026 \o <<"1", "0", "-", "2", "6">>,
       Year2026 \o <<"1", "0", "-", "2", "7">>,
       Year2026 \o <<"1", "0", "-", "2", "8">>,
       Year2026 \o <<"1", "0", "-", "2", "9">>,
       Year2026 \o <<"1", "0", "-", "3", "0">>,
       Year2026 \o <<"1", "0", "-", "3", "1">>,
       Year2026 \o <<"1", "1", "-", "0", "1">>,
       Year2026 \o <<"1", "1", "-", "0", "2">> >>

Days == 1..Len(Calendar)

\* new Date().toISOString() on day t: the day, then the time of day.
toISOString(t) == Calendar[t] \o <<"T", "0", "9", ":", "0", "0", "Z">>

\* date('now', 'start of day'), date('now', '-6 days') and
\* date('now', 'start of month') on day now.
StartOfDay(now) == Calendar[now]
SixDaysBefore(now) == Calendar[now - 6]
StartOfMonth(now) == SubSeq(Calendar[now], 1, 8) \o <<"0", "1">>

\* /^\d{4}-\d{2}-\d{2}$/.test(s)
dateRegex(s) ==
    /\ Len(s) = 10
    /\ \A k \in {1, 2, 3, 4, 6, 7, 9, 10} : s[k] \in Digits
    /\ s[5] = "-" /\ s[8] = "-"

\* new Date(s) for a text that matches dateRegex: the date, or Invalid Date
\* (time value NaN) when the month or the day is out of range.
NewDate(s) ==
    LET y == ParseDigits(SubSeq(s, 1, 4), 0, FALSE).val
        m == ParseDigits(SubSeq(s, 6, 7), 0, FALSE).val
        d == ParseDigits(SubSeq(s, 9, 10), 0, FALSE).val
    IN
    IF m \in 1..12 /\ d \in 1..31
    THEN [nan |-> FALSE, y |-> y, m |-> m, d |-> d]
    ELSE [nan |-> TRUE, y |-> 0, m |-> 0, d |-> 0]

\* start > end for two Date objects with valid time values
DateGreater(a, b) ==
    \/ a.y > b.y
    \/ a.y = b.y /\ a.m > b.m
    \/ a.y = b.y /\ a.m = b.m /\ a.d > b.d


-----------------------------------------------------------------------------
\* ReportsScreen: fetchReports and the custom date range.

MsgBothDates == "Please enter both start and end dates"
MsgDateFormat == "Dates must be in YYYY-MM-DD format"
MsgInvalidDate == "Invalid date format"
MsgStartBeforeEnd == "Start date must be before end date"
MsgLoadReportsFailed == "Failed to load reports"

Periods == {"daily", "weekly", "monthly", "custom"}

nonReportVars == <<storeVars, clock, salesScreenVars, alert, invError,
                   resetPc, homeVars, authVars, app, settings, schema,
                   effectVars>>

\* The WHERE clause fetchReports builds, applied to a sales row.
dateFilter(call, row) ==
    LET d == toISOString(row.date) IN
    CASE call.period = "daily" -> TextLeq(StartOfDay(clock), d)
      [] call.period = "weekly" -> TextLeq(SixDaysBefore(clock), d)
      [] call.period = "monthly" -> TextLeq(StartOfMonth(clock), d)
      [] call.period = "custom" -> TextLeq(call.start, d) /\ TextLeq(d, call.end)

\* The sales rows the WHERE clause selects.
FilteredSales(call) == SelectSeq(sales, LAMBDA row : dateFilter(call, row))

RECURSIVE SumQuantity(_)
SumQuantity(rows) ==
    IF rows = <<>> THEN 0 ELSE Head(rows).quantity + SumQuantity(Tail(rows))

\* The first query: sales joined with inventory, grouped by item.
SelectReports(call) ==
    LET rows == FilteredSales(call)
        ids == { rows[k].itemId : k \in 1..Len(rows) } \cap DOMAIN inventory
        of(id) == SelectSeq(rows, LAMBDA row : row.itemId = id)
    IN
    { [itemId |-> id, itemName |-> inventory[id].name,
       totalQuantity |-> SumQuantity(of(id)),
       totalAmount |-> SumAmount(of(id))] : id \in ids }

\* The second query, and the summary setSummary is given.
SelectSummary(call) ==
    LET rows == FilteredSales(call)
        totalSales == Len(rows)
        totalRevenue == SumAmount(rows)
    IN
    [totalSales |-> totalSales,
     totalRevenue |-> totalRevenue,
     averageSale |-> IF totalSales # 0
                     THEN [num |-> totalRevenue, den |-> totalSales]
                     ELSE [num |-> 0, den |-> 1]]


\* fetchReports(period, start, end) is called: the first query is issued.
FetchReportsStart(r, period, start, end) ==
    [r EXCEPT !.calls = @ \cup {[period |-> period, start |-> start,
                                 end |-> end, pc |-> "list", list |-> {}]}]

\* The screen is mounted: the effect on period runs fetchReports('daily').
ReportsMount ==
    /\ ~rep.mounted
    /\ rep' = FetchReportsStart([rep EXCEPT !.mounted = TRUE], rep.period,
                                <<>>, <<>>)
    /\ UNCHANGED nonReportVars

\* A period button is pressed: setPeriod, then the effect on period, which
\* calls fetchReports(period) or, for custom, opens the date dialog.
SelectPeriod(p) ==
    /\ rep.mounted
    /\ ~rep.modalVisible
    /\ rep.retry = NoCall
    /\ p # rep.period
    /\ IF p # "custom"
       THEN /\ Cardinality(rep.calls) < MaxFetches
            /\ rep' = FetchReportsStart([rep EXCEPT !.period = p], p, <<>>, <<>>)
       ELSE rep' = [rep EXCEPT !.period = p, !.modalVisible = TRUE]
    /\ UNCHANGED nonReportVars

\* Text is typed into the start or the end field of the dialog.
SetStartDate(text) ==
    /\ rep.modalVisible
    /\ rep' = [rep EXCEPT !.startDate = text]
    /\ UNCHANGED nonReportVars

SetEndDate(text) ==
    /\ rep.modalVisible
    /\ rep' = [rep EXCEPT !.endDate = text]
    /\ UNCHANGED nonReportVars

\* The dialog is dismissed (Cancel or onRequestClose).
CloseModal ==
    /\ rep.modalVisible
    /\ rep' = [rep EXCEPT !.modalVisible = FALSE]
    /\ UNCHANGED nonReportVars

\* A date dialog that does not compare the two dates.
handleCustomDateSubmitUnordered ==
    /\ rep.modalVisible
    /\ IF rep.startDate = <<>> \/ rep.endDate = <<>>
       THEN rep' = [rep EXCEPT !.alert = MsgBothDates]
       ELSE IF ~dateRegex(rep.startDate) \/ ~dateRegex(rep.endDate)
       THEN rep' = [rep EXCEPT !.alert = MsgDateFormat]
       ELSE IF NewDate(rep.startDate).nan \/ NewDate(rep.endDate).nan
       THEN rep' = [rep EXCEPT !.alert = MsgInvalidDate]
       ELSE /\ Cardinality(rep.calls) < MaxFetches
            /\ rep' = FetchReportsStart(
                        [rep EXCEPT !.modalVisible = FALSE,
                                    !.startDate = <<>>, !.endDate = <<>>],
                        "custom", rep.startDate, rep.endDate)
    /\ UNCHANGED nonReportVars

\* handleCustomDateSubmit
handleCustomDateSubmit ==
    /\ rep.modalVisible
    /\ IF rep.startDate = <<>> \/ rep.endDate = <<>>
       THEN rep' = [rep EXCEPT !.alert = MsgBothDates]
       ELSE IF ~dateRegex(rep.startDate) \/ ~dateRegex(rep.endDate)
       THEN rep' = [rep EXCEPT !.alert = MsgDateFormat]
       ELSE IF NewDate(rep.startDate).nan \/ NewDate(rep.endDate).nan
       THEN rep' = [rep EXCEPT !.alert = MsgInvalidDate]
       ELSE IF DateGreater(NewDate(rep.startDate), NewDate(rep.endDate))
       THEN rep' = [rep EXCEPT !.alert = MsgStartBeforeEnd]
       ELSE /\ Cardinality(rep.calls) < MaxFetches
            /\ rep' = FetchReportsStart(
                        [rep EXCEPT !.modalVisible = FALSE,
                                    !.startDate = <<>>, !.endDate = <<>>],
                        "custom", rep.startDate, rep.endDate)
    /\ UNCHANGED nonReportVars

\* fetchReports: the first query resolves; the summary query is issued.
FetchReportsList(c) ==
    /\ c \in rep.calls
    /\ c.pc = "list"
    /\ rep' = [rep EXCEPT !.calls = (@ \ {c}) \cup
                   {[c EXCEPT !.pc = "summary", !.list = SelectReports(c)]}]
    /\ UNCHANGED nonReportVars

\* fetchReports: the summary query resolves; setReports and setSummary run.
FetchReportsSummary(c) ==
    /\ c \in rep.calls
    /\ c.pc = "summary"
    /\ rep' = [rep EXCEPT !.calls = @ \ {c},
                          !.reports = c.list,
                          !.summary = SelectSummary(c)]
    /\ UNCHANGED nonReportVars

\* fetchReports: either query rejects: the alert keeps the call for Retry.
FetchReportsCatch(c) ==
    /\ c \in rep.calls
    /\ rep.retry = NoCall
    /\ rep' = [rep EXCEPT !.calls = @ \ {c},
                          !.alert = MsgLoadReportsFailed,
                          !.retry = [period |-> c.period, start |-> c.start,
                                     end |-> c.end]]
    /\ UNCHANGED nonReportVars

\* Retry is pressed in the alert: fetchReports runs with the same arguments.
ReportsRetry ==
    /\ rep.retry # NoCall
    /\ Cardinality(rep.calls) < MaxFetches
    /\ rep' = FetchReportsStart([rep EXCEPT !.retry = NoCall], rep.retry.period,
                                rep.retry.start, rep.retry.end)
    /\ UNCHANGED nonReportVars

\* Cancel is pressed in the alert.
ReportsCancelRetry ==
    /\ rep.retry # NoCall
    /\ rep' = [rep EXCEPT !.retry = NoCall]
    /\ UNCHANGED nonReportVars


-----------------------------------------------------------------------------
\* The reports screen on a store with sales of several days.

Today == Len(Calendar)

\* Sales of 25 October, 27 October, 1 November and 2 November.
RecordedSales ==
    << [itemId |-> 1, quantity |-> 1, amount |-> 2, date |-> 1],
       [itemId |-> 1, quantity |-> 1, amount |-> 3, date |-> 3],
       [itemId |-> 1, quantity |-> 1, amount |-> 2, date |-> 8],
       [itemId |-> 1, quantity |-> 1, amount |-> 3, date |-> 9] >>

\* A sales table with the rows of RecordedSales at the positions in ks.
SalesTable(ks) ==
    [n \in 1..Len(ks) |->
        [id |-> n, itemId |-> RecordedSales[ks[n]].itemId,
         quantity |-> RecordedSales[ks[n]].quantity,
         amount |-> RecordedSales[ks[n]].amount,
         date |-> RecordedSales[ks[n]].date]]

\* The sales tables the reports are computed over: none, one or two of the
\* recorded sales, in the order they were made.
ReportSales ==
    { SalesTable(<<>>) }
    \cup { SalesTable(<<j>>) : j \in 1..Len(RecordedSales) }
    \cup { SalesTable(<<t[1], t[2]>>) :
             t \in { u \in (1..Len(RecordedSales)) \X (1..Len(RecordedSales)) :
                       u[1] < u[2] } }

\* What may be typed into a date field of the dialog.
DateTexts ==
    { <<>>,
      Calendar[3], Calendar[8], Calendar[9],
      <<"1", "1", "/", "0", "1", "/", "2", "0", "2", "6">>,
      Year2026 \o <<"1", "3", "-", "0", "1">> }

\* The store the reports screen finds: an inventory table and a sales table.
ReportsStore(inv, sls) ==
    /\ inventory \in inv
    /\ nextItemId = 2
    /\ sales \in sls
    /\ nextSaleId = Len(sales) + 1
    /\ users = <<>>
    /\ userId = NoMarker
    /\ settings = NoSettings
    /\ schema = Tables
    /\ app = AppReady
    /\ clock = Today
    /\ InitMemory

SoapInStock == (1 :> [id |-> 1, name |-> Soap, quantity |-> 2, price |-> 2])

InitReports == ReportsStore({EmptyTable, SoapInStock}, ReportSales)

\* Date texts that pass the checks of the dialog.
ValidDateTexts == { Calendar[8], Calendar[9] }

\* The period buttons and the date dialog, with every query resolving, while
\* items may be deleted on the inventory screen.
ReportsNext ==
    \/ \E id \in 1..MaxItems : DeleteItem(id)
    \/ ReportsMount
    \/ \E p \in Periods : SelectPeriod(p)
    \/ \E t \in ValidDateTexts : SetStartDate(t)
    \/ \E t \in ValidDateTexts : SetEndDate(t)
    \/ handleCustomDateSubmit
    \/ \E c \in rep.calls : FetchReportsList(c)
    \/ \E c \in rep.calls : FetchReportsSummary(c)

SpecReports == InitReports /\ [][ReportsNext]_vars

InitCustomDates == ReportsStore({SoapInStock}, {SalesTable(<<3, 4>>)})

\* The date dialog with every text, and queries that may reject.
CustomDatesNext ==
    \/ ReportsMount
    \/ SelectPeriod("custom")
    \/ SelectPeriod("daily")
    \/ \E t \in DateTexts : SetStartDate(t)
    \/ \E t \in DateTexts : SetEndDate(t)
    \/ CloseModal
    \/ handleCustomDateSubmit
    \/ \E c \in rep.calls : FetchReportsList(c)
    \/ \E c \in rep.calls : FetchReportsSummary(c)
    \/ \E c \in rep.calls : FetchReportsCatch(c)
    \/ ReportsRetry
    \/ ReportsCancelRetry

SpecCustomDates == InitCustomDates /\ [][CustomDatesNext]_vars


-----------------------------------------------------------------------------
\* Properties of the reports (SpecReports, SpecCustomDates).

\* The sale row was recorded on a day of the period of the call: today, the
\* last seven days, the current calendar month, or a day from the start
\* date to the end date.
InPeriod(call, row) ==
    LET day == Calendar[row.date] IN
    CASE call.period = "daily" -> row.date = clock
      [] call.period = "weekly" -> row.date \in (clock - 6)..clock
      [] call.period = "monthly" ->
           SubSeq(day, 1, 7) = SubSeq(Calendar[clock], 1, 7)
      [] call.period = "custom" ->
           TextLeq(call.start, day) /\ TextLeq(day, call.end)

\* C15: the summary fetchReports sets for a period has totalSales = the
\* number of Sale rows of the period and totalRevenue = the sum of their
\* amounts, 0 when there are none; averageSale is totalRevenue / totalSales
\* when totalSales > 0 and 0 when totalSales = 0.
C15_SalesSummaryOfPeriod ==
    [][ \A c \in rep.calls :
          FetchReportsSummary(c)
          => LET rows == SelectSeq(sales, LAMBDA row : InPeriod(c, row))
                 shown == rep'.summary
             IN
             /\ shown.totalSales = Len(rows)
             /\ shown.totalRevenue = SumAmount(rows)
             /\ shown.totalSales > 0
                  => shown.averageSale.num * shown.totalSales
                       = shown.totalRevenue * shown.averageSale.den
             /\ shown.totalSales = 0 => shown.averageSale.num = 0
      ]_vars


-----------------------------------------------------------------------------
\* The low-stock list of the home screen and the configured threshold.

\* The settings the later revision of SettingsScreen starts with.
LaterDefaultSettings ==
    [theme |-> "dark", lowStock |-> TRUE, dailySales |-> FALSE,
     currency |-> "KES", userName |-> "User", language |-> "english",
     lowStockThreshold |-> 10, backupFrequency |-> "none"]

\* The low-stock threshold field is edited: the number typed, 0 for an empty
\* field, is put into the settings, and the effect on settings saves them.
SetLowStockThreshold(text) ==
    LET value == parseInt(text)
        loaded == settings @@ LaterDefaultSettings
    IN
    /\ IF ~isNaN(value) /\ value.val >= 0
       THEN settings' = [loaded EXCEPT !.lowStockThreshold = value.val]
       ELSE IF Trim(text) = <<>>
       THEN settings' = [loaded EXCEPT !.lowStockThreshold = 0]
       ELSE UNCHANGED settings
    /\ UNCHANGED <<storeVars, clock, salesScreenVars, alert, invError,
                   resetPc, homeVars, authVars, app, rep, schema,
                   effectVars>>

ThresholdTexts == { <<>>, <<"x">>, <<"1">>, <<"3">>, <<"1", "0">> }

\* An inventory table with rows of the given quantities.
InventoryOf(qs) ==
    [i \in 1..Len(qs) |-> [id |-> i, name |-> Soap, quantity |-> qs[i],
                           price |-> 2]]

\* The inventories of the scenario: up to two items with quantities around
\* the thresholds.
LowStockInventories ==
    { InventoryOf(<<>>) }
    \cup { InventoryOf(<<q>>) : q \in {2, 3, 5, 6, 10} }
    \cup { InventoryOf(<<t[1], t[2]>>) : t \in {2, 3, 5, 6, 10} \X {3, 5, 10} }

InitLowStock ==
    /\ inventory \in LowStockInventories
    /\ nextItemId = Cardinality(DOMAIN inventory) + 1
    /\ sales = <<>>
    /\ nextSaleId = 1
    /\ users = <<>>
    /\ userId = NoMarker
    /\ settings \in { NoSettings, DefaultSettings, LaterDefaultSettings }
    /\ schema = Tables
    /\ app = AppReady
    /\ clock = 0
    /\ InitMemory

LowStockNext ==
    \/ \E t \in ThresholdTexts : SetLowStockThreshold(t)
    \/ HomeReadSummary
    \/ HomeReadLowStock
    \/ HomeCatch

SpecLowStock == InitLowStock /\ [][LowStockNext]_vars

\* The threshold the caller has configured, 5 when none is set.
ConfiguredThreshold ==
    IF "lowStockThreshold" \in DOMAIN settings
    THEN settings.lowStockThreshold
    ELSE 5

\* C16: the low-stock list the home screen reads is exactly the inventory
\* items whose stored quantity is <= the configured low-stock threshold
\* (5 when none is set).
C16_LowStockUsesThreshold ==
    [][ HomeReadLowStock
          => homeView'.lowStock =
               { inventory[i] : i \in { j \in DOMAIN inventory :
                     inventory[j].quantity <= ConfiguredThreshold } }
      ]_vars


\* The text is a date written YYYY-MM-DD with a month and a day in range.
WellFormedDate(t) ==
    /\ Len(t) = 10
    /\ t[5] = "-" /\ t[8] = "-"
    /\ \A k \in (1..10) \ {5, 8} : t[k] \in Digits
    /\ 10 * DigitVal(t[6]) + DigitVal(t[7]) \in 1..12
    /\ 10 * DigitVal(t[9]) + DigitVal(t[10]) \in 1..31

\* Both dates are present and well-formed, and start <= end.
ValidDateRange(start, end) ==
    /\ start # <<>> /\ end # <<>>
    /\ WellFormedDate(start) /\ WellFormedDate(end)
    /\ TextLeq(start, end)

ValidationMessages ==
    {MsgBothDates, MsgDateFormat, MsgInvalidDate, MsgStartBeforeEnd}

----------------------------------------------------------------------------
\* Quantities that must not pass the validation of a sale.

\* The text, white space aside, is an optional sign followed by decimal
\* digits and nothing else.
IsNumericText(text) ==
    LET s == Trim(text)
        d == IF s # <<>> /\ Head(s) \in {"-", "+"} THEN Tail(s) ELSE s
    IN  /\ d # <<>>
        /\ \A i \in 1..Len(d) : d[i] \in Digits

\* The quantity the text gives is zero, negative, or not a number.
InvalidQuantity(text) ==
    \/ ~IsNumericText(text)
    \/ parseInt(text).val <= 0

\* C18: a sale whose quantity is zero, negative or not a number fails the
\* validation before anything is written: no INSERT or UPDATE of handleSubmit
\* is ever in flight for such a quantity text.
C18_InvalidQuantityRejected ==
    sub.pc # "idle" => ~InvalidQuantity(sub.text)

----------------------------------------------------------------------------
\* The failures of recording a sale and what is reported for each.

\* The failures handleSubmit can meet before it writes.
HeadFailures == {"item not found", "invalid quantity", "insufficient stock"}

\* The failure a call with this item and this quantity text is one of, when
\* it is exactly one: the item missing with a good quantity, the quantity
\* not a positive number for a listed item, or a good quantity above the
\* item's stock.
FailureMode(item, text) ==
    LET qty == parseInt(text)
        bad == isNaN(qty) \/ qty.val <= 0
    IN  CASE item = NoItem /\ ~bad -> "item not found"
          [] item # NoItem /\ bad -> "invalid quantity"
          [] item # NoItem /\ ~bad /\ qty.val > item.quantity
               -> "insufficient stock"
          [] OTHER -> "none"

\* Listed items a call may be made with.
SampleItems ==
    { [id |-> 1, name |-> Soap, quantity |-> q, price |-> 1] : q \in 0..2 }

\* The texts handleSubmit reports for the calls of one failure.
ReportedFor(mode) ==
    { SubmitError(item, text) :
        <<item, text>> \in
          { c \in (SampleItems \cup {NoItem}) \X QuantityTexts :
              FailureMode(c[1], c[2]) = mode } }

\* A call with this item and text that is a failure ends with a text
\* reported, and the text is one that no other failure is reported with.
ReportedDistinctly(item, text) ==
    LET mode == FailureMode(item, text) IN
    mode # "none" =>
      /\ sub'.pc = "idle"
      /\ errorText' # ""
      /\ errorText' # SaleFailed
      /\ \A other \in HeadFailures \ {mode} :
           errorText' \notin ReportedFor(other)

\* C19: item not found, invalid quantity, insufficient stock and storage
\* failure are each reported, and with four outcomes that differ pairwise:
\* what a failing call reports is reported for no other failure, and a
\* failed write raises the storage failure alert.
C19_FailureModesDistinct ==
    /\ [][handleSubmit => ReportedDistinctly(getSelectedItem, quantity)]_vars
    /\ [][RetrySubmit => ReportedDistinctly(retry.item, retry.text)]_vars
    /\ [][SubmitCatch => alert' = SaleFailed]_vars

----------------------------------------------------------------------------
\* Retrying a sale after a storage failure.

\* The preconditions of a sale, read from the store: the item is a row of
\* inventory and the quantity is within that row's stock.
PreconditionsHold(item, text) ==
    /\ item.id \in DOMAIN inventory
    /\ parseInt(text).val <= inventory[item.id].quantity

\* C20: Retry after a failed write checks the item and the quantity against
\* the store as it is when Retry is pressed; when the item is gone or its
\* stock is below the quantity, the retry issues no statement and writes
\* nothing.
C20_RetryRevalidates ==
    [][ (RetrySubmit /\ ~PreconditionsHold(retry.item, retry.text))
          => (sub'.pc = "idle" /\ sales' = sales /\ inventory' = inventory)
      ]_vars

----------------------------------------------------------------------------
\* Passwords in the users table and on the console.

\* The passwords given to register or written into initDB.
SuppliedPasswords ==
    {PwAdmin123} \cup RegisterPasswordTexts
      \cup { Trim(p) : p \in RegisterPasswordTexts }

\* The values bcrypt.hash can return for them.
HashValues == { BcryptHash(p, s) : p \in SuppliedPasswords, s \in Salts }

\* C21: a password is neither stored nor logged in plaintext: the password
\* column of every users row holds a hash, and no line initDB has written
\* to the console carries a supplied password.
C21_NoPlaintextPassword ==
    /\ \A i \in 1..Len(users) : users[i].password \in HashValues
    /\ \A line \in seed.log :
         \A k \in DOMAIN line.values : line.values[k] \notin SuppliedPasswords

----------------------------------------------------------------------------
\* The add-item form with every kind of input.

InventoryNext ==
    \/ \E n \in NameTexts, q \in QuantityTexts, p \in PriceTexts :
         AddItem(n, q, p)
    \/ \E id \in 1..MaxItems : DeleteItem(id)
    \/ FetchItemsCall
    \/ FetchItemsOk
    \/ FetchItemsFail

SpecInventory == Init /\ [][InventoryNext]_vars

\* The three fields hold what an item needs: a name that is not blank, a
\* quantity text that is an integer >= 0 and a price text that is a number
\* greater than 0.
ValidItemInput(name, qtyText, priceText) ==
    /\ Trim(name) # <<>>
    /\ IsNumericText(qtyText)
    /\ parseInt(qtyText).val >= 0
    /\ IsNumericText(priceText)
    /\ parseFloat(priceText).val > 0

\* C22: addItem writes a row only for a non-blank name, an integer quantity
\* >= 0 and a price > 0, and otherwise sets one of its two error texts and
\* writes nothing; so every inventory row has a name, a quantity >= 0 and a
\* price > 0.
C22_AddItemValidated ==
    /\ [] (\A i \in DOMAIN inventory :
             /\ inventory[i].name # <<>>
             /\ inventory[i].quantity >= 0
             /\ inventory[i].price > 0)
    /\ [][ \A n \in NameTexts, q \in QuantityTexts, p \in PriceTexts :
             (AddItem(n, q, p) /\ ~ValidItemInput(n, q, p))
               => /\ inventory' = inventory
                  /\ invError' \in {InvErrRequired, InvErrInvalid} ]_vars

----------------------------------------------------------------------------
\* The summary against the detailed report.

\* The sum of totalAmount over the rows of a detailed report.
RECURSIVE SumTotalAmount(_)
SumTotalAmount(rows) ==
    IF rows = {} THEN 0
    ELSE LET r == CHOOSE x \in rows : TRUE
         IN  r.totalAmount + SumTotalAmount(rows \ {r})

\* The number of sales rows of the call's period that the rows of the
\* detailed report are sums over.
AggregatedSales(call, rows) ==
    Len(SelectSeq(FilteredSales(call),
                  LAMBDA row : row.itemId \in { r.itemId : r \in rows }))

\* C23: revenue reconciles with the recorded sales: whenever fetchReports
\* sets the detailed rows and the summary of a period, the summary's
\* totalRevenue is the sum of totalAmount over the rows and its totalSales
\* is the number of sales those rows are sums over, also after an item with
\* sales was deleted.
C23_RevenueReconciles ==
    [][ \A c \in rep.calls :
          FetchReportsSummary(c)
            => /\ rep'.summary.totalRevenue = SumTotalAmount(rep'.reports)
               /\ rep'.summary.totalSales = AggregatedSales(c, rep'.reports)
      ]_vars

----------------------------------------------------------------------------
\* The explicit date range.

\* The sales whose day lies in the range of a custom call, both ends
\* included.
SalesInRange(call) ==
    SelectSeq(sales, LAMBDA row : InPeriod(call, row))

\* C24: for a start and an end date the summary and the detailed report
\* cover exactly the sales whose day d has start <= d <= end, so a sale
\* made at any time of the end day is counted.
C24_CustomRangeInclusive ==
    [][ \A c \in rep.calls :
          c.period = "custom" =>
            /\ FetchReportsSummary(c)
                 => /\ rep'.summary.totalSales = Len(SalesInRange(c))
                    /\ rep'.summary.totalRevenue = SumAmount(SalesInRange(c))
            /\ FetchReportsList(c)
                 => \A l \in rep'.calls \ rep.calls :
                      SumTotalAmount(l.list)
                        = SumAmount(SelectSeq(SalesInRange(c),
                            LAMBDA row : row.itemId \in DOMAIN inventory))
      ]_vars

----------------------------------------------------------------------------
\* Every operation that touches the store, side by side.

\* Nothing is in flight: no sale, no reset, no list or home screen query,
\* no call of register or login.
Quiet ==
    /\ sub.pc = "idle" /\ retry = NoRetry /\ resetPc = "idle"
    /\ ~fetchPending /\ homePc = "idle"
    /\ reg["c1"].pc = "idle" /\ lg.pc = "idle"

\* One user on one device: an item is added, the list is loaded, sales of
\* one unit are recorded, the home screen is read, an account is registered
\* and logged in, each started when the one before has ended; deleting an
\* item and the reset may start at any time, also while another operation
\* is in flight.
SaleRowsNext ==
    \/ (Quiet /\ AddItem(Soap, <<"2">>, <<"2">>))
    \/ \E id \in 1..MaxItems : DeleteItem(id)
    \/ (Quiet /\ FetchItemsCall)
    \/ FetchItemsOk
    \/ (Quiet /\ \E id \in 1..MaxItems : SelectItem(id))
    \/ (Quiet /\ validateQuantity(<<"1">>))
    \/ (Quiet /\ handleSubmit)
    \/ SubmitInsertOk
    \/ SubmitUpdateOk
    \/ resetDatabase
    \/ ResetPressed
    \/ ResetDeleteInventory
    \/ ResetDeleteSales
    \/ (Quiet /\ HomeReadSummary)
    \/ HomeReadLowStock
    \/ (Quiet /\ RegisterCall("c1", Abc, Pw123456, "user"))
    \/ RegisterLookup("c1")
    \/ RegisterInsert("c1", "s1")
    \/ RegisterReturn("c1")
    \/ (Quiet /\ handleLogin(Abc, Pw123456))
    \/ LoginLookup
    \/ LoginSetItem
    \/ LoginSetUser
    \/ LoginReturn

SpecSaleRows == Init /\ [][SaleRowsNext]_vars


\* C25: Sale rows are created only by handleSubmit's INSERT and never
\* changed afterwards: a step that changes the sales table either appends
\* one row for the sale in flight and leaves the rows before it as they
\* were, or is the reset's DELETE FROM sales; adding or deleting an item,
\* register, login and the queries leave the table as it is.
C25_SaleRowsImmutable ==
    [][ sales' # sales =>
          \/ /\ sub.pc = "insert"
             /\ Len(sales') = Len(sales) + 1
             /\ SubSeq(sales', 1, Len(sales)) = sales
             /\ sales'[Len(sales')].itemId = sub.item.id
          \/ /\ resetPc = "sales"
             /\ sales' = <<>> ]_vars

\* Two sales were recorded, their item was deleted afterwards, an account
\* was registered and logged in and the home screen has read the totals:
\* both rows are still there.
C25_Witness ==
    /\ Len(sales) = 2
    /\ inventory = EmptyTable
    /\ resetPc = "idle"
    /\ Len(users) = 1
    /\ user.id = users[1].id
    /\ homeView.totalSales = 2

----------------------------------------------------------------------------
\* The session: loadUser at startup, login and logout.

\* Two accounts, and the marker the last session may have left.
InitSession ==
    /\ inventory = EmptyTable
    /\ nextItemId = 1
    /\ sales = <<>>
    /\ nextSaleId = 1
    /\ users = << [id |-> 1, username |-> Abc,
                   password |-> BcryptHash(Pw123456, "s1"),
                   role |-> "user", createdAt |-> 0],
                  [id |-> 2, username |-> AdminUsername,
                   password |-> BcryptHash(PwAdmin123, "s2"),
                   role |-> "admin", createdAt |-> 0] >>
    /\ userId \in {NoMarker, 1, 2}
    /\ settings = NoSettings
    /\ schema = Tables
    /\ app = AppReady
    /\ clock = 0
    /\ InitMemory

\* loadUser runs from the mount on; the login form is used while nobody is
\* logged in and logout is called while somebody is.
SessionNext ==
    \/ LoadUserGetItem
    \/ LoadUserSelect
    \/ LoadUserCatch
    \/ (user = NoUser /\ \E u \in {Abc, AdminUsername},
                            pw \in {Pw123456, PwAdmin123} : handleLogin(u, pw))
    \/ LoginLookup
    \/ LoginSetItem
    \/ LoginSetUser
    \/ LoginCatch
    \/ LoginReturn
    \/ (user # NoUser /\ LogoutCall)
    \/ LogoutDelete
    \/ LogoutSetUser
    \/ LogoutCatch

SpecSession == InitSession /\ [][SessionNext]_vars

\* No call of loadUser, login or logout is in flight.
SessionSettled == lu.pc = "done" /\ lg.pc = "idle" /\ lo = "idle"

\* C26: under every interleaving of loadUser, login and logout, once none
\* of them is in flight the current user is set only if the stored marker
\* userId exists and is that user's id; and a logout that completes leaves
\* no current user and no marker.
C26_SessionConsistent ==
    /\ [] (SessionSettled /\ user # NoUser => userId = user.id)
    /\ [][ (LogoutSetUser /\ SessionSettled')
             => (user' = NoUser /\ userId' = NoMarker) ]_vars

----------------------------------------------------------------------------
\* Registering an account and logging in with the same texts.

\* The username and password texts of the scenario: one pair as plain
\* texts, one pair typed with surrounding blanks. The trimmed usernames
\* differ, so a users row tells which pair registered it.
RoundTripInputs ==
    { <<Abc, Pw123456>>,
      << <<" ", "a", "b", "d", " ">>, <<" ">> \o Pw123456 >> }

RoundTripNext ==
    \/ \E t \in RoundTripInputs : RegisterCall("c1", t[1], t[2], "user")
    \/ RegisterLookup("c1")
    \/ \E s \in Salts : RegisterInsert("c1", s)
    \/ RegisterCatch("c1")
    \/ RegisterReturn("c1")
    \/ \E t \in RoundTripInputs : handleLogin(t[1], t[2])
    \/ LoginLookup
    \/ LoginSetItem
    \/ LoginSetUser
    \/ LoginCatch
    \/ LoginReturn

SpecRoundTrip == Init /\ [][RoundTripNext]_vars

\* register has returned true for the pair: the account it inserted for
\* the pair's username is in the table.
Registered(t) ==
    \E k \in 1..Len(users) : users[k].username = Trim(t[1])

\* C27: when register has returned true for a username text and a password
\* text, login called with the same two texts finds the account and accepts
\* the password, also when the texts have blanks around them.
C27_RegisterLoginRoundTrip ==
    [][ \A t \in RoundTripInputs :
          ( /\ LoginLookup
            /\ lg.username = t[1]
            /\ lg.password = t[2]
            /\ Registered(t) )
          => /\ lg'.pc = "setItem"
             /\ lg'.row.username = Trim(t[1]) ]_vars


-----------------------------------------------------------------------------
\* The theme and the persisted settings: ThemeProvider's setThemeType and the
\* later SettingsScreen's loadSettings, saveSettings and toggleTheme.  Every
\* AsyncStorage call is started without being awaited by the caller's caller,
\* so the calls in flight are kept in th.ops in the order they were started
\* and complete in any order.

SetItemCall(value) == [kind |-> "setItem", value |-> value]

GetItemCall == [kind |-> "getItem", value |-> NoSettings]

\* The sequence without its i-th element.
DropAt(seq, i) == SubSeq(seq, 1, i - 1) \o SubSeq(seq, i + 1, Len(seq))

\* ThemeProvider's setThemeType handed to the screens: themeType is set and
\* a settings item holding the theme alone is written.  The handler is a new
\* function after every render of the provider, so a change of themeType
\* re-runs the mounted SettingsScreen's loadSettings effect.
setThemeTypeHandler(t, newTheme) ==
    [t EXCEPT !.themeType = newTheme,
              !.ops = @ \o << SetItemCall([theme |-> newTheme]) >>
                        \o IF t.mounted /\ t.themeType # newTheme
                           THEN << GetItemCall >>
                           ELSE << >>]

\* The effect on settings: saveSettings writes the screen's settings, unless
\* they are still null.
saveSettings(t) ==
    IF t.screen = NoSettings
    THEN t
    ELSE [t EXCEPT !.ops = @ \o << SetItemCall(t.screen) >>]

\* The SettingsScreen is opened: its first effect calls loadSettings.
SettingsMount ==
    /\ ~th.mounted
    /\ Len(th.ops) < MaxPending
    /\ th' = [th EXCEPT !.mounted = TRUE, !.ops = @ \o << GetItemCall >>]
    /\ UNCHANGED <<storeVars, clock, salesScreenVars, alert, invError,
                   resetPc, homeVars, authVars, app, settings, rep, schema,
                   lu, cs>>

\* AsyncStorage completes a setItem: the item is replaced by the value.
SetItemDone(i) ==
    /\ i \in 1..Len(th.ops)
    /\ th.ops[i].kind = "setItem"
    /\ settings' = th.ops[i].value
    /\ th' = [th EXCEPT !.ops = DropAt(@, i)]
    /\ UNCHANGED <<storeVars, clock, salesScreenVars, alert, invError,
                   resetPc, homeVars, authVars, app, rep, schema, lu, cs>>

\* AsyncStorage completes loadSettings' getItem with the item as it is now.
GetItemDone(i) ==
    /\ i \in 1..Len(th.ops)
    /\ th.ops[i].kind = "getItem"
    /\ th' = [th EXCEPT !.ops[i] = [kind |-> "loaded", value |-> settings]]
    /\ UNCHANGED <<storeVars, clock, salesScreenVars, alert, invError,
                   resetPc, homeVars, authVars, app, settings, rep, schema,
                   lu, cs>>

\* loadSettings after its await: the saved settings over the defaults (the
\* defaults when nothing is saved) become the screen's settings and their
\* theme goes to setThemeType; the effects of the next render follow, the
\* re-run loadSettings first and saveSettings after it.
loadSettings(i) ==
    /\ i \in 1..Len(th.ops)
    /\ th.ops[i].kind = "loaded"
    /\ LET updatedSettings == th.ops[i].value @@ LaterDefaultSettings
           taken == [th EXCEPT !.ops = DropAt(@, i),
                               !.screen = updatedSettings]
           after == saveSettings(
                        setThemeTypeHandler(taken, updatedSettings.theme))
       IN
       /\ Len(after.ops) <= MaxPending
       /\ th' = after
    /\ UNCHANGED <<storeVars, clock, salesScreenVars, alert, invError,
                   resetPc, homeVars, authVars, app, settings, rep, schema,
                   lu, cs>>

\* The theme switch of the SettingsScreen.
toggleTheme ==
    /\ th.mounted
    /\ th.screen # NoSettings
    /\ LET newTheme == IF th.screen.theme = "dark" THEN "light" ELSE "dark"
           set == [th EXCEPT !.screen = [@ EXCEPT !.theme = newTheme]]
           after == saveSettings(setThemeTypeHandler(set, newTheme))
       IN
       /\ Len(after.ops) <= MaxPending
       /\ th' = after
    /\ UNCHANGED <<storeVars, clock, salesScreenVars, alert, invError,
                   resetPc, homeVars, authVars, app, settings, rep, schema,
                   lu, cs>>

\* Settings saved by an earlier run of the app with the dark theme, none of
\* the others a default.
SavedSettings ==
    [theme |-> "dark", lowStock |-> FALSE, dailySales |-> TRUE,
     currency |-> "USD", userName |-> "Amina", language |-> "french",
     lowStockThreshold |-> 3, backupFrequency |-> "weekly"]

InitTheme ==
    /\ inventory = EmptyTable
    /\ nextItemId = 1
    /\ sales = <<>>
    /\ nextSaleId = 1
    /\ users = <<>>
    /\ userId = NoMarker
    /\ settings = SavedSettings
    /\ schema = Tables
    /\ app = AppReady
    /\ clock = 0
    /\ InitMemory

ThemeNext ==
    \/ SettingsMount
    \/ toggleTheme
    \/ \E i \in 1..MaxPending : SetItemDone(i)
    \/ \E i \in 1..MaxPending : GetItemDone(i)
    \/ \E i \in 1..MaxPending : loadSettings(i)

SpecTheme == InitTheme /\ [][ThemeNext]_vars

\* The settings other than the theme.
OtherSettings(s) ==
    [k \in DOMAIN s \ {"theme"} |-> s[k]]

\* C28: changing the theme keeps every other persisted setting.  Once the
\* AsyncStorage calls started by toggleTheme, setThemeType and the reloads
\* they cause have all completed, the saved settings hold the theme the
\* screen switched to (light, from the saved dark) and the currency,
\* low-stock threshold, notification switches and user name that were saved
\* before.
C28_ThemeChangePreservesSettings ==
    (th.screen # NoSettings /\ th.screen.theme = "light" /\ th.ops = <<>>)
      => /\ settings # NoSettings
         /\ settings.theme = "light"
         /\ OtherSettings(settings) = OtherSettings(SavedSettings)


-----------------------------------------------------------------------------
\* The period buttons pressed while earlier fetchReports calls are still in
\* flight, on a store that does not change and with every query resolving.

\* Sales of 27 October, 1 November and 2 November: the daily, the weekly and
\* the monthly report all differ.
InitPeriods == ReportsStore({SoapInStock}, {SalesTable(<<2, 3, 4>>)})

PeriodsNext ==
    \/ ReportsMount
    \/ \E p \in Periods : SelectPeriod(p)
    \/ \E t \in ValidDateTexts : SetStartDate(t)
    \/ \E t \in ValidDateTexts : SetEndDate(t)
    \/ CloseModal
    \/ handleCustomDateSubmit
    \/ \E c \in rep.calls : FetchReportsList(c)
    \/ \E c \in rep.calls : FetchReportsSummary(c)

SpecPeriods == InitPeriods /\ [][PeriodsNext]_vars

\* The report shown is the result of fetchReports with these arguments.
ShowsReportOf(period, start, end) ==
    LET call == [period |-> period, start |-> start, end |-> end] IN
    /\ rep.summary = SelectSummary(call)
    /\ rep.reports = SelectReports(call)

\* C29: once loading has settled the displayed report belongs to the
\* selected period.  When the screen is mounted, the date dialog is closed
\* and no fetchReports call is in flight, the summary and the detailed rows
\* shown are the result for the selected period: for daily, weekly and
\* monthly the result of that period, for custom the result of a range of
\* dates the dialog accepts.
C29_ReportOfSelectedPeriod ==
    (rep.mounted /\ ~rep.modalVisible /\ rep.calls = {})
      => IF rep.period # "custom"
         THEN ShowsReportOf(rep.period, <<>>, <<>>)
         ELSE \E s \in ValidDateTexts, e \in ValidDateTexts :
                  ShowsReportOf("custom", s, e)


-----------------------------------------------------------------------------
\* The cached revision of SalesScreen: fetchData, its retry counter and the
\* pull-to-refresh.

MAX_RETRIES == 3

MsgRetrying == "Failed to load data. Retrying..."
MsgMaxRetries == "Max retries reached. Using cached data or try again later."

cachedFrame == <<storeVars, clock, salesScreenVars, alert, invError, resetPc,
                 homeVars, authVars, app, settings, rep, schema, lu, th>>

\* The second query of fetchData: the sales joined with their items, the
\* latest first, five at most.  The sales table is in the order of its dates.
RECURSIVE LatestFirst(_)
LatestFirst(rows) ==
    IF rows = <<>> THEN <<>>
    ELSE LatestFirst(Tail(rows)) \o << Head(rows) >>

SelectRecentSales ==
    LET joined == SelectSeq(sales, LAMBDA row : row.itemId \in DOMAIN inventory)
        named == [k \in 1..Len(joined) |->
                    [id |-> joined[k].id, itemId |-> joined[k].itemId,
                     itemName |-> inventory[joined[k].itemId].name,
                     quantity |-> joined[k].quantity,
                     amount |-> joined[k].amount, date |-> joined[k].date]]
        sorted == LatestFirst(named)
    IN
    SubSeq(sorted, 1, IF Len(sorted) < 5 THEN Len(sorted) ELSE 5)

\* The runs of fetchData that are past the isLoading test and not yet ended.
RunsInFlight(c) == c.runs.queries + c.runs.cache

\* fetchData is called through a closure in which isLoading had the given
\* value: it returns at once when that was true, and otherwise sets isLoading
\* and issues the two queries.
fetchData(c, isLoading) ==
    IF isLoading
    THEN c
    ELSE [c EXCEPT !.isLoading = TRUE, !.runs.queries = @ + 1]

\* The screen is mounted: loadInitialData shows the cached lists when the
\* cache item is younger than CACHE_TTL, then calls fetchData.  The clock
\* counts days, so a cache item of the same day is of either age.
LoadInitialData ==
    /\ ~cs.mounted
    /\ \E fresh \in BOOLEAN :
          /\ fresh => cs.cache.present /\ cs.cache.timestamp = clock
          /\ cs' = fetchData(
                     [cs EXCEPT !.mounted = TRUE,
                                !.items = IF fresh THEN cs.cache.items ELSE @,
                                !.recentSales = IF fresh
                                                THEN cs.cache.recentSales
                                                ELSE @],
                     FALSE)
    /\ UNCHANGED cachedFrame

\* The list is pulled down: setIsRefreshing(true), and the debounced
\* fetchData of this render is armed.
onRefresh ==
    /\ cs.mounted
    /\ cs.alert = NoAlert
    /\ cs' = [cs EXCEPT !.isRefreshing = TRUE,
                        !.timers = @ \cup {cs.isLoading}]
    /\ UNCHANGED cachedFrame

\* The debounce timer of 300 ms fires and calls the fetchData it wraps.
DebounceFires(isLoading) ==
    /\ isLoading \in cs.timers
    /\ ~isLoading => RunsInFlight(cs) < MaxFetches
    /\ cs' = fetchData([cs EXCEPT !.timers = @ \ {isLoading}], isLoading)
    /\ UNCHANGED cachedFrame

\* fetchData: both queries resolve; setItems and setRecentSales run and the
\* cache item is written.
FetchDataQueriesOk ==
    /\ cs.runs.queries > 0
    /\ cs' = [cs EXCEPT !.runs.queries = @ - 1,
                        !.runs.cache = @ + 1,
                        !.items = SelectItemsInStock,
                        !.recentSales = SelectRecentSales]
    /\ UNCHANGED cachedFrame

\* fetchData: the cache write resolves; the retry count is reset and the
\* finally block clears isLoading and isRefreshing.
FetchDataCacheOk ==
    /\ cs.runs.cache > 0
    /\ cs' = [cs EXCEPT !.runs.cache = @ - 1,
                        !.cache = [present |-> TRUE, items |-> cs.items,
                                   recentSales |-> cs.recentSales,
                                   timestamp |-> clock],
                        !.retryCount = 0,
                        !.isLoading = FALSE,
                        !.isRefreshing = FALSE]
    /\ UNCHANGED cachedFrame

\* fetchData: the queries or the cache write reject; the catch block counts
\* the failure and shows an alert, with Retry Now while the count is within
\* MAX_RETRIES, and the finally block clears isLoading and isRefreshing.
FetchDataCatchStrict(stage) ==
    /\ stage \in {"queries", "cache"}
    /\ cs.runs[stage] > 0
    /\ cs.retryCount < MaxFailures
    /\ cs' = [cs EXCEPT !.runs[stage] = @ - 1,
                        !.retryCount = @ + 1,
                        !.alert = IF cs.retryCount + 1 < MAX_RETRIES
                                  THEN MsgRetrying
                                  ELSE MsgMaxRetries,
                        !.isLoading = FALSE,
                        !.isRefreshing = FALSE]
    /\ UNCHANGED cachedFrame

FetchDataCatch(stage) ==
    /\ stage \in {"queries", "cache"}
    /\ cs.runs[stage] > 0
    /\ cs.retryCount < MaxFailures
    /\ cs' = [cs EXCEPT !.runs[stage] = @ - 1,
                        !.retryCount = @ + 1,
                        !.alert = IF cs.retryCount + 1 <= MAX_RETRIES
                                  THEN MsgRetrying
                                  ELSE MsgMaxRetries,
                        !.isLoading = FALSE,
                        !.isRefreshing = FALSE]
    /\ UNCHANGED cachedFrame

\* Retry Now is pressed in the alert: the fetchData that showed it runs
\* again; it was created in a render with isLoading false.
RetryNow ==
    /\ cs.alert = MsgRetrying
    /\ RunsInFlight(cs) < MaxFetches
    /\ cs' = fetchData([cs EXCEPT !.alert = NoAlert], FALSE)
    /\ UNCHANGED cachedFrame

\* The alert is dismissed (Cancel or OK).
DismissLoadAlert ==
    /\ cs.alert # NoAlert
    /\ cs' = [cs EXCEPT !.alert = NoAlert]
    /\ UNCHANGED cachedFrame

CachedNext ==
    \/ LoadInitialData
    \/ onRefresh
    \/ \E b \in BOOLEAN : DebounceFires(b)
    \/ FetchDataQueriesOk
    \/ FetchDataCacheOk
    \/ \E stage \in {"queries", "cache"} : FetchDataCatch(stage)
    \/ RetryNow
    \/ DismissLoadAlert

\* The cache items an earlier run of the app may have left: none, one of
\* today and one of the day before.
EarlierCaches ==
    { NoCache } \cup
    { [present |-> TRUE, items |-> SoapInStock, recentSales |-> <<>>,
       timestamp |-> t] : t \in {Today - 1, Today} }

InitCached ==
    /\ inventory = SoapInStock
    /\ nextItemId = 2
    /\ sales = SalesTable(<<3, 4>>)
    /\ nextSaleId = Len(sales) + 1
    /\ users = <<>>
    /\ userId = NoMarker
    /\ settings = NoSettings
    /\ schema = Tables
    /\ app = AppReady
    /\ clock = Today
    /\ InitScreens
    /\ cs \in { [CachedStart EXCEPT !.cache = c] : c \in EarlierCaches }

SpecCached == InitCached /\ [][CachedNext]_vars

\* A step in which a run of fetchData fails.
LoadFails == \E stage \in {"queries", "cache"} : FetchDataCatch(stage)

\* C30: loading on the cached sales screen is retried on a user action only
\* and a bounded number of times.  A failed run starts no other run and arms
\* no timer; a run starts only at the mount, when Retry Now is pressed or when
\* the timer of a pull-to-refresh fires.  The alert of a failure offers
\* Retry Now exactly when it is the first, second or third failure in a row
\* (MAX_RETRIES is 3).  A run that succeeds sets the failure count to 0.
\* Every run ends with isLoading and isRefreshing false, and neither is true
\* once no run is in flight and no timer is armed.
C30_BoundedUserRetries ==
    /\ [][ /\ LoadFails
             => /\ RunsInFlight(cs') = RunsInFlight(cs) - 1
                /\ cs'.timers = cs.timers
                /\ (cs'.alert = MsgRetrying) <=> (cs.retryCount < MAX_RETRIES)
                /\ (cs'.alert = MsgMaxRetries) <=> (cs.retryCount >= MAX_RETRIES)
           /\ RunsInFlight(cs') > RunsInFlight(cs)
                => \/ LoadInitialData
                   \/ RetryNow
                   \/ \E b \in BOOLEAN : DebounceFires(b)
           /\ FetchDataCacheOk => cs'.retryCount = 0
           /\ (LoadFails \/ FetchDataCacheOk)
                => ~cs'.isLoading /\ ~cs'.isRefreshing
         ]_vars
    /\ [] ( (cs.mounted /\ RunsInFlight(cs) = 0 /\ cs.timers = {})
               => ~cs.isLoading /\ ~cs.isRefreshing )

\* Four loads have failed in a row, the last alert offers no retry, and the
\* flags are cleared.
C30_Witness ==
    /\ cs.retryCount = MAX_RETRIES + 1
    /\ cs.alert = MsgMaxRetries
    /\ RunsInFlight(cs) = 0
    /\ ~cs.isLoading
    /\ ~cs.isRefreshing

====
